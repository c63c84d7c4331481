---------------------------- MODULE OperatorProofs ----------------------------
(***************************************************************************)
(* An Operator contract, for any nodes, delegators, Sponsorships and       *)
(* amounts: its array of nodes, its controllers and their permissions;     *)
(* what each function of OperatorBooks does to the accounts, that the      *)
(* stakes they keep are always the ones the Sponsorships hold, and that    *)
(* no transaction makes the tokens of delegators worth less.               *)
(***************************************************************************)
EXTENDS OperatorContract, SumProofs, SequenceTheorems, TLAPS

-----------------------------------------------------------------------------
(* The array of nodes and its index *)

Fleets == [nodes : Seq(NodeAddresses), nodeIndex : [NodeAddresses -> Nat],
           publishers : SUBSET NodeAddresses, ok : BOOLEAN]

\* The index has the position of every node in the array, and 0 for the others.
Indexed(f) ==
    /\ \A i \in 1 .. Len(f.nodes) : f.nodeIndex[f.nodes[i]] = i
    /\ \A n \in NodeAddresses : f.nodeIndex[n] # 0 =>
          f.nodeIndex[n] \in 1 .. Len(f.nodes) /\ f.nodes[f.nodeIndex[n]] = n

\* Only nodes may publish, and all of them but for some of those in gone.
Permitted(f, gone) ==
    \A n \in NodeAddresses :
       /\ n \in f.publishers => f.nodeIndex[n] # 0
       /\ f.nodeIndex[n] # 0 /\ n \notin gone => n \in f.publishers

GoodFleets(gone) == {f \in Fleets : Indexed(f) /\ Permitted(f, gone)}

\* _addNode of an address that is not a node
LEMMA AddedIsGood ==
    ASSUME NEW gone, NEW f \in GoodFleets(gone), NEW n \in NodeAddresses,
           f.nodeIndex[n] = 0, streamExists \in BOOLEAN
    PROVE  AddNode(f, n) \in GoodFleets(gone)
<1> DEFINE g == AddNode(f, n)
           len == Len(f.nodes)
<1>1. /\ f \in Fleets /\ Indexed(f) /\ Permitted(f, gone)
      /\ f.nodes \in Seq(NodeAddresses) /\ len \in Nat
      /\ \A i \in 1 .. len : f.nodes[i] \in NodeAddresses
      /\ f.nodeIndex \in [NodeAddresses -> Nat] /\ f.publishers \in SUBSET NodeAddresses
  BY DEF GoodFleets, Fleets
<1>2. /\ g.nodes = Append(f.nodes, n)
      /\ g.nodeIndex = [f.nodeIndex EXCEPT ![n] = len + 1]
      /\ g.publishers = f.publishers \cup {n}
      /\ g.ok = streamExists
      /\ g = [nodes |-> g.nodes, nodeIndex |-> g.nodeIndex, publishers |-> g.publishers,
              ok |-> g.ok]
  BY DEF AddNode
<1>3. /\ g.nodes \in Seq(NodeAddresses) /\ Len(g.nodes) = len + 1
      /\ \A i \in 1 .. len : g.nodes[i] = f.nodes[i]
      /\ g.nodes[len + 1] = n
  BY <1>1, <1>2, AppendProperties
<1>4. /\ g.nodeIndex \in [NodeAddresses -> Nat]
      /\ g.nodeIndex[n] = len + 1
      /\ \A m \in NodeAddresses : m # n => g.nodeIndex[m] = f.nodeIndex[m]
  BY <1>1, <1>2
<1> HIDE DEF g, len
<1>5. g \in Fleets
  BY <1>1, <1>2, <1>3, <1>4 DEF Fleets
<1>6. \A i \in 1 .. len + 1 : i = len + 1 \/ i \in 1 .. len
  BY <1>1
<1>7. \A i \in 1 .. len : f.nodes[i] # n /\ f.nodeIndex[f.nodes[i]] = i
  BY <1>1 DEF Indexed, len
<1>8. Indexed(g)
  <2>1. \A i \in 1 .. len + 1 : g.nodeIndex[g.nodes[i]] = i
    <3> SUFFICES ASSUME NEW i \in 1 .. len + 1 PROVE g.nodeIndex[g.nodes[i]] = i
      OBVIOUS
    <3>1. CASE i = len + 1
      BY <3>1, <1>3, <1>4
    <3>2. CASE i \in 1 .. len
      <4>1. g.nodes[i] = f.nodes[i] /\ f.nodes[i] \in NodeAddresses /\ f.nodes[i] # n
        BY <3>2, <1>1, <1>3, <1>7
      <4> QED
        BY <3>2, <4>1, <1>4, <1>7
    <3> QED
      BY <3>1, <3>2, <1>6
  <2>2. ASSUME NEW m \in NodeAddresses, g.nodeIndex[m] # 0
        PROVE  g.nodeIndex[m] \in 1 .. len + 1 /\ g.nodes[g.nodeIndex[m]] = m
    <3>1. CASE m = n
      BY <3>1, <1>1, <1>3, <1>4
    <3>2. CASE m # n
      <4>1. f.nodeIndex[m] \in 1 .. len /\ f.nodes[f.nodeIndex[m]] = m
        BY <3>2, <2>2, <1>1, <1>4 DEF Indexed, len
      <4>2. g.nodeIndex[m] = f.nodeIndex[m]
        BY <3>2, <1>4
      <4> QED
        BY <4>1, <4>2, <1>1, <1>3
    <3> QED
      BY <3>1, <3>2
  <2> QED
    BY <2>1, <2>2, <1>3 DEF Indexed
<1>9. Permitted(g, gone)
  BY <1>1, <1>2, <1>4 DEF Permitted
<1> QED
  BY <1>5, <1>8, <1>9 DEF GoodFleets, g

\* _removeNode of a node: the last one moves to its place, unless it is the last.
LEMMA RemovedIsGood ==
    ASSUME NEW gone, NEW f \in GoodFleets(gone), NEW n \in NodeAddresses,
           f.nodeIndex[n] > 0, streamExists \in BOOLEAN
    PROVE  /\ RemoveNode(f, n) \in GoodFleets(gone)
           /\ Len(RemoveNode(f, n).nodes) = Len(f.nodes) - 1
<1> DEFINE g == RemoveNode(f, n)
           len == Len(f.nodes)
           index == f.nodeIndex[n]
           last == f.nodes[len]
           moved == [f.nodes EXCEPT ![index] = last]
<1>1. /\ f \in Fleets /\ Indexed(f) /\ Permitted(f, gone)
      /\ f.nodes \in Seq(NodeAddresses) /\ len \in Nat
      /\ \A i \in 1 .. len : f.nodes[i] \in NodeAddresses
      /\ f.nodeIndex \in [NodeAddresses -> Nat] /\ f.publishers \in SUBSET NodeAddresses
  BY DEF GoodFleets, Fleets
<1>2. index \in 1 .. len /\ f.nodes[index] = n
  BY <1>1 DEF Indexed
<1>3. len \in 1 .. len /\ last \in NodeAddresses
  BY <1>1, <1>2
<1>4. /\ g.nodes = SubSeq(moved, 1, Len(moved) - 1)
      /\ g.nodeIndex = [f.nodeIndex EXCEPT ![last] = index, ![n] = 0]
      /\ g.publishers = f.publishers \ {n}
      /\ g.ok = streamExists
      /\ g = [nodes |-> g.nodes, nodeIndex |-> g.nodeIndex, publishers |-> g.publishers,
              ok |-> g.ok]
  BY DEF RemoveNode, Front, Last
<1>5. /\ moved \in Seq(NodeAddresses) /\ Len(moved) = len
      /\ \A i \in 1 .. len : moved[i] = IF i = index THEN last ELSE f.nodes[i]
  BY <1>1, <1>2, <1>3, ExceptSeq
<1> HIDE DEF moved
<1>6. /\ g.nodes \in Seq(NodeAddresses) /\ Len(g.nodes) = len - 1
      /\ \A i \in 1 .. len - 1 : g.nodes[i] = IF i = index THEN last ELSE f.nodes[i]
  <2>1. \A i \in 1 .. len - 1 : moved[i] \in NodeAddresses
    BY <1>1, <1>3, <1>5
  <2>2. /\ SubSeq(moved, 1, len - 1) \in Seq(NodeAddresses)
        /\ Len(SubSeq(moved, 1, len - 1)) = IF 1 <= len - 1 THEN (len - 1) - 1 + 1 ELSE 0
        /\ \A i \in 1 .. (len - 1) - 1 + 1 : SubSeq(moved, 1, len - 1)[i] = moved[1 + i - 1]
    <3>1. 1 \in Int /\ len - 1 \in Int
      BY <1>1
    <3> QED
      BY <2>1, <3>1, SubSeqProperties
  <2>3. \A i \in 1 .. len - 1 : i \in 1 .. (len - 1) - 1 + 1 /\ 1 + i - 1 = i /\ i \in 1 .. len
    BY <1>1
  <2> HIDE DEF g, index, last, len
  <2>4. len - 1 >= 0 /\ (1 <= len - 1 => (len - 1) - 1 + 1 = len - 1)
    BY <1>1, <1>3
  <2>5. g.nodes = SubSeq(moved, 1, len - 1)
    BY <1>4, <1>5
  <2>6. Len(g.nodes) = len - 1
    BY <2>2, <2>4, <2>5, <1>1
  <2>7. ASSUME NEW i \in 1 .. len - 1
        PROVE  g.nodes[i] = moved[i]
    BY <2>2, <2>3, <2>5
  <2> QED
    BY <2>2, <2>3, <2>5, <2>6, <2>7, <1>5
<1>7. /\ g.nodeIndex \in [NodeAddresses -> Nat]
      /\ \A m \in NodeAddresses :
           g.nodeIndex[m] = IF m = n THEN 0 ELSE IF m = last THEN index ELSE f.nodeIndex[m]
  <2>1. index \in Nat
    BY <1>1
  <2> DEFINE step == [f.nodeIndex EXCEPT ![last] = index]
  <2>2. g.nodeIndex = [step EXCEPT ![n] = 0]
    BY <1>4
  <2> HIDE DEF g, index, last, len
  <2>3. /\ step \in [NodeAddresses -> Nat]
        /\ \A m \in NodeAddresses : step[m] = IF m = last THEN index ELSE f.nodeIndex[m]
    BY <2>1, <1>1, <1>3
  <2> HIDE DEF step
  <2> QED
    BY <2>2, <2>3
<1>8. \A i \in 1 .. len : f.nodeIndex[f.nodes[i]] = i
  BY <1>1 DEF Indexed
<1> HIDE DEF g, index, last, len
<1>9. g \in Fleets
  BY <1>1, <1>4, <1>6, <1>7 DEF Fleets
<1>10. ASSUME NEW i \in 1 .. len - 1
       PROVE  g.nodeIndex[g.nodes[i]] = i
  <2>0. i \in 1 .. len /\ i # len
    BY <1>1
  <2>1. CASE i = index
    <3>1. g.nodes[i] = last
      BY <2>1, <1>6
    <3>2. last # n
      BY <2>0, <2>1, <1>2, <1>3, <1>8 DEF last, index, len
    <3> QED
      BY <2>1, <3>1, <3>2, <1>3, <1>7
  <2>2. CASE i # index
    <3>1. g.nodes[i] = f.nodes[i] /\ f.nodes[i] \in NodeAddresses
      BY <2>0, <2>2, <1>1, <1>6
    <3>2. f.nodeIndex[f.nodes[i]] = i
      BY <2>0, <1>8
    <3>3. f.nodes[i] # n
      BY <3>2, <2>2 DEF index
    <3>4. f.nodes[i] # last
      BY <3>2, <2>0, <1>3, <1>8 DEF last, len
    <3> QED
      BY <3>1, <3>2, <3>3, <3>4, <1>7
  <2> QED
    BY <2>1, <2>2
<1>11. ASSUME NEW m \in NodeAddresses, g.nodeIndex[m] # 0
       PROVE  g.nodeIndex[m] \in 1 .. len - 1 /\ g.nodes[g.nodeIndex[m]] = m
  <2>1. m # n
    BY <1>7, <1>11
  <2>2. CASE m = last
    <3>1. g.nodeIndex[m] = index
      BY <2>1, <2>2, <1>7
    <3>2. index # len
      BY <2>1, <2>2, <1>2 DEF last
    <3>3. index \in 1 .. len - 1
      BY <3>2, <1>1, <1>2
    <3> QED
      BY <3>1, <3>3, <2>2, <1>6
  <2>3. CASE m # last
    <3> DEFINE k == f.nodeIndex[m]
    <3>1. g.nodeIndex[m] = k
      BY <2>1, <2>3, <1>7
    <3>2. k \in 1 .. len /\ f.nodes[k] = m
      BY <3>1, <1>1, <1>11 DEF Indexed, len
    <3> HIDE DEF k
    <3>3. k # len /\ k # index
      BY <3>2, <2>1, <2>3, <1>2 DEF last
    <3>4. k \in 1 .. len - 1
      BY <3>2, <3>3, <1>1
    <3> QED
      BY <3>1, <3>2, <3>3, <3>4, <1>6
  <2> QED
    BY <2>2, <2>3
<1>12. Indexed(g)
  BY <1>6, <1>10, <1>11 DEF Indexed
<1>13. Permitted(g, gone)
  <2>1. index # 0 /\ f.nodeIndex[last] # 0
    <3>1. f.nodeIndex[last] = len
      BY <1>3, <1>8 DEF last
    <3> QED
      BY <3>1, <1>1, <1>2, <1>3
  <2>2. ASSUME NEW m \in NodeAddresses
        PROVE  /\ m = n => g.nodeIndex[m] = 0
               /\ m # n => (g.nodeIndex[m] = 0 <=> f.nodeIndex[m] = 0)
    BY <2>1, <1>7
  <2> QED
    BY <2>2, <1>1, <1>4 DEF Permitted
<1> QED
  BY <1>6, <1>9, <1>12, <1>13 DEF GoodFleets, g, len

-----------------------------------------------------------------------------
(* The loops over lists of nodes *)

\* The first loop of setNodeAddresses and of updateNodeAddresses
LEMMA AllAddedIsGood ==
    ASSUME NEW gone, NEW f \in GoodFleets(gone), NEW list \in Seq(NodeAddresses),
           streamExists \in BOOLEAN
    PROVE  AllAdded(f, list) \in GoodFleets(gone)
<1> DEFINE n == Len(list)
           States == GoodFleets(gone)
           Step(h, s) == IF s = {} THEN f ELSE AddIfMissing(h[s \ {Max(s)}], list[Max(s)])
           Run(h) == [s \in SUBSET (1 .. n) |-> Step(h, s)]
           iter == CHOOSE h : h = Run(h)
           step == [q \in States \X (1 .. n) |-> AddIfMissing(q[1], list[q[2]])]
<1>1. n \in Nat /\ DOMAIN list = 1 .. n /\ \A i \in 1 .. n : list[i] \in NodeAddresses
  OBVIOUS
<1>2. AllAdded(f, list) = iter[1 .. n]
  BY <1>1 DEF AllAdded, FoldLeft, MapThenFoldSet
<1> HIDE DEF States, n
<1>3. \A st \in States, i \in 1 .. n : AddIfMissing(st, list[i]) \in States
  <2> SUFFICES ASSUME NEW st \in States, NEW i \in 1 .. n
               PROVE  AddIfMissing(st, list[i]) \in States
    OBVIOUS
  <2>1. CASE st.nodeIndex[list[i]] = 0
    BY <1>1, <2>1, AddedIsGood DEF AddIfMissing, States
  <2>2. CASE st.nodeIndex[list[i]] # 0
    BY <2>2 DEF AddIfMissing
  <2> QED
    BY <2>1, <2>2
<1>4. step \in [States \X (1 .. n) -> States]
  BY <1>3
<1>5. \E h : h = Run(h)
  <2>1. PICK g \in [SUBSET (1 .. n) -> States] : IsStepwise(g, f, step, n)
    <3> HIDE DEF step
    <3>1. f \in States
      BY DEF States
    <3> QED
      BY <1>1, <1>4, <3>1, RunExists
  <2>2. ASSUME NEW s \in SUBSET (1 .. n)
        PROVE  g[s] = Step(g, s)
    <3>1. s # {} => Max(s) \in 1 .. n /\ g[s \ {Max(s)}] \in States
      BY <1>1, MaxInSet
    <3>2. g[s] = IF s = {} THEN f ELSE step[<<g[s \ {Max(s)}], Max(s)>>]
      BY <2>1 DEF IsStepwise
    <3> QED
      BY <3>1, <3>2
  <2> HIDE DEF Step
  <2>3. g = Run(g)
    BY <2>2
  <2> QED
    BY <2>3
<1>6. iter = Run(iter)
  <2> HIDE DEF Run
  <2> QED
    BY <1>5
<1> HIDE DEF iter
<1>7. \A s \in SUBSET (1 .. n) : iter[s] = Step(iter, s)
  <2> HIDE DEF Step
  <2> QED
    BY <1>6
<1>8. ASSUME NEW k \in 1 .. n, iter[1 .. k - 1] \in States
      PROVE  iter[1 .. k] \in States
  <2>1. Max(1 .. k) = k /\ (1 .. k) \ {k} = 1 .. k - 1 /\ 1 .. k # {}
    <3>1. k \in Nat /\ k > 0
      BY <1>1
    <3> QED
      BY <3>1, LastOfInterval
  <2>2. 1 .. k \in SUBSET (1 .. n)
    BY <1>1
  <2>3. iter[1 .. k] = AddIfMissing(iter[1 .. k - 1], list[k])
    BY <1>7, <2>1, <2>2
  <2> QED
    BY <1>3, <1>8, <2>3
<1>9. iter[{}] \in States
  BY <1>7 DEF States
<1>10. iter[1 .. n] \in States
  BY <1>1, <1>8, <1>9, RunStays
<1> QED
  BY <1>2, <1>10 DEF States

\* The second loop of updateNodeAddresses
LEMMA AllRemovedIsGood ==
    ASSUME NEW gone, NEW f \in GoodFleets(gone), NEW list \in Seq(NodeAddresses),
           streamExists \in BOOLEAN
    PROVE  FoldLeft(RemoveIfListed, f, list) \in GoodFleets(gone)
<1> DEFINE n == Len(list)
           States == GoodFleets(gone)
           Step(h, s) == IF s = {} THEN f ELSE RemoveIfListed(h[s \ {Max(s)}], list[Max(s)])
           Run(h) == [s \in SUBSET (1 .. n) |-> Step(h, s)]
           iter == CHOOSE h : h = Run(h)
           step == [q \in States \X (1 .. n) |-> RemoveIfListed(q[1], list[q[2]])]
<1>1. n \in Nat /\ DOMAIN list = 1 .. n /\ \A i \in 1 .. n : list[i] \in NodeAddresses
  OBVIOUS
<1>2. FoldLeft(RemoveIfListed, f, list) = iter[1 .. n]
  BY <1>1 DEF FoldLeft, MapThenFoldSet
<1> HIDE DEF States, n
<1>3. \A st \in States, i \in 1 .. n : RemoveIfListed(st, list[i]) \in States
  <2> SUFFICES ASSUME NEW st \in States, NEW i \in 1 .. n
               PROVE  RemoveIfListed(st, list[i]) \in States
    OBVIOUS
  <2>1. CASE st.nodeIndex[list[i]] > 0
    BY <1>1, <2>1, RemovedIsGood DEF RemoveIfListed, States
  <2>2. CASE ~(st.nodeIndex[list[i]] > 0)
    BY <2>2 DEF RemoveIfListed
  <2> QED
    BY <2>1, <2>2
<1>4. step \in [States \X (1 .. n) -> States]
  BY <1>3
<1>5. \E h : h = Run(h)
  <2>1. PICK g \in [SUBSET (1 .. n) -> States] : IsStepwise(g, f, step, n)
    <3> HIDE DEF step
    <3>1. f \in States
      BY DEF States
    <3> QED
      BY <1>1, <1>4, <3>1, RunExists
  <2>2. ASSUME NEW s \in SUBSET (1 .. n)
        PROVE  g[s] = Step(g, s)
    <3>1. s # {} => Max(s) \in 1 .. n /\ g[s \ {Max(s)}] \in States
      BY <1>1, MaxInSet
    <3>2. g[s] = IF s = {} THEN f ELSE step[<<g[s \ {Max(s)}], Max(s)>>]
      BY <2>1 DEF IsStepwise
    <3> QED
      BY <3>1, <3>2
  <2> HIDE DEF Step
  <2>3. g = Run(g)
    BY <2>2
  <2> QED
    BY <2>3
<1>6. iter = Run(iter)
  <2> HIDE DEF Run
  <2> QED
    BY <1>5
<1> HIDE DEF iter
<1>7. \A s \in SUBSET (1 .. n) : iter[s] = Step(iter, s)
  <2> HIDE DEF Step
  <2> QED
    BY <1>6
<1>8. ASSUME NEW k \in 1 .. n, iter[1 .. k - 1] \in States
      PROVE  iter[1 .. k] \in States
  <2>1. Max(1 .. k) = k /\ (1 .. k) \ {k} = 1 .. k - 1 /\ 1 .. k # {}
    <3>1. k \in Nat /\ k > 0
      BY <1>1
    <3> QED
      BY <3>1, LastOfInterval
  <2>2. 1 .. k \in SUBSET (1 .. n)
    BY <1>1
  <2>3. iter[1 .. k] = RemoveIfListed(iter[1 .. k - 1], list[k])
    BY <1>7, <2>1, <2>2
  <2> QED
    BY <1>3, <1>8, <2>3
<1>9. iter[{}] \in States
  BY <1>7 DEF States
<1>10. iter[1 .. n] \in States
  BY <1>1, <1>8, <1>9, RunStays
<1> QED
  BY <1>2, <1>10 DEF States

\* The second loop of setNodeAddresses: its position is always within the array, as
\* every round moves on or makes the array shorter.
LEMMA OthersRemovedIsGood ==
    ASSUME NEW gone, NEW f \in GoodFleets(gone), NEW list \in Seq(NodeAddresses),
           streamExists \in BOOLEAN
    PROVE  OthersRemoved(f, list) \in GoodFleets(gone)
<1> DEFINE Round(loop, round) ==
             LET node == loop.fleet.nodes[loop.i]
             IN  IF node \in Range(list) THEN [loop EXCEPT !.i = @ + 1]
                 ELSE [loop EXCEPT !.fleet = RemoveNode(@, node)]
           base == [fleet |-> f, i |-> 1]
           n == Len(f.nodes)
           Step(h, s) == IF s = {} THEN base ELSE Round(h[s \ {Max(s)}], f.nodes[Max(s)])
           RunTo(h, k) == [s \in SUBSET (1 .. k) |-> Step(h, s)]
           iter == CHOOSE h : h = RunTo(h, n)
           Loops(k) == {loop \in [fleet : GoodFleets(gone), i : 1 .. n + 1] :
                          /\ Len(loop.fleet.nodes) <= n
                          /\ Len(loop.fleet.nodes) - loop.i + 1 = n - k}
<1>1. n \in Nat /\ DOMAIN f.nodes = 1 .. n
  BY DEF GoodFleets, Fleets
<1>2. OthersRemoved(f, list) = iter[1 .. n].fleet
  BY <1>1 DEF OthersRemoved, FoldLeft, MapThenFoldSet
<1>3. base \in Loops(0)
  BY <1>1
<1>4. ASSUME NEW k \in 1 .. n, NEW loop \in Loops(k - 1), NEW round
      PROVE  Round(loop, round) \in Loops(k)
  <2> DEFINE now == loop.fleet
             node == now.nodes[loop.i]
  <2>1. /\ now \in GoodFleets(gone) /\ loop.i \in 1 .. n + 1
        /\ Len(now.nodes) <= n /\ Len(now.nodes) - loop.i + 1 = n - (k - 1)
        /\ loop = [fleet |-> now, i |-> loop.i]
    <3> HIDE DEF n, Round, base, Step, RunTo, iter
    <3>1. /\ loop \in [fleet : GoodFleets(gone), i : 1 .. n + 1]
          /\ Len(loop.fleet.nodes) <= n
          /\ Len(loop.fleet.nodes) - loop.i + 1 = n - (k - 1)
      OBVIOUS
    <3> HIDE DEF Loops
    <3> QED
      BY <3>1
  <2>2. /\ Len(now.nodes) \in Nat /\ now.nodes \in Seq(NodeAddresses)
        /\ now \in Fleets /\ Indexed(now)
    <3>1. now \in GoodFleets(gone)
      BY <2>1
    <3> HIDE DEF now, n, Loops, Round, base, Step, RunTo, iter
    <3> QED
      BY <3>1 DEF GoodFleets, Fleets
  <2>3. loop.i \in 1 .. Len(now.nodes) /\ loop.i + 1 \in 1 .. n + 1
    <3> DEFINE len == Len(now.nodes)
               i == loop.i
    <3>1. len \in Nat /\ i \in 1 .. n + 1 /\ len - i + 1 = n - (k - 1) /\ len <= n
      BY <2>1, <2>2
    <3> HIDE DEF len, i, n
    <3>2. k \in 1 .. n /\ n \in Nat
      BY <1>1
    <3>3. i \in 1 .. len /\ i + 1 \in 1 .. n + 1
      BY <3>1, <3>2
    <3> QED
      BY <3>3 DEF len, i
  <2>4. node \in NodeAddresses /\ now.nodeIndex[node] = loop.i
    BY <2>2, <2>3 DEF Indexed
  <2>5. CASE node \in Range(list)
    <3> DEFINE next == [fleet |-> now, i |-> loop.i + 1]
    <3>1. Round(loop, round) = next
      BY <2>1, <2>5
    <3>2. Len(now.nodes) - (loop.i + 1) + 1 = n - k
      <4> HIDE DEF n, now
      <4> QED
        BY <1>1, <2>1, <2>2, <2>3
    <3>3. next \in [fleet : GoodFleets(gone), i : 1 .. n + 1] /\ Len(now.nodes) <= n
      BY <2>1, <2>3
    <3>4. next.fleet = now /\ next.i = loop.i + 1
      OBVIOUS
    <3> HIDE DEF now, n, next
    <3> QED
      BY <3>1, <3>2, <3>3, <3>4
  <2>6. CASE node \notin Range(list)
    <3> DEFINE after == RemoveNode(now, node)
    <3>1. Round(loop, round) = [fleet |-> after, i |-> loop.i]
      BY <2>1, <2>6
    <3> HIDE DEF now, node
    <3>2. now.nodeIndex[node] > 0
      BY <2>3, <2>4
    <3>3. after \in GoodFleets(gone) /\ Len(after.nodes) = Len(now.nodes) - 1
      BY <2>1, <2>4, <3>2, RemovedIsGood
    <3> DEFINE next == [fleet |-> after, i |-> loop.i]
    <3> HIDE DEF after
    <3>4. Len(after.nodes) - loop.i + 1 = n - k
      <4> DEFINE len == Len(now.nodes)
                 i == loop.i
      <4>1. /\ len \in Nat /\ i \in Nat /\ len - i + 1 = n - (k - 1)
            /\ Len(after.nodes) = len - 1
        BY <2>1, <2>2, <2>3, <3>3
      <4> HIDE DEF n, len, i
      <4>2. k \in Nat /\ n \in Nat
        BY <1>1
      <4>3. (len - 1) - i + 1 = n - k
        BY <4>1, <4>2
      <4> QED
        BY <4>1, <4>3 DEF i
    <3>5. next \in [fleet : GoodFleets(gone), i : 1 .. n + 1] /\ Len(after.nodes) <= n
      <4>1. Len(after.nodes) <= n
        <5> HIDE DEF n
        <5> QED
          BY <1>1, <2>1, <2>2, <3>3
      <4> QED
        BY <2>1, <3>3, <4>1
    <3>6. next.fleet = after /\ next.i = loop.i
      OBVIOUS
    <3> HIDE DEF n, next
    <3> QED
      BY <3>1, <3>4, <3>5, <3>6 DEF next
  <2> QED
    BY <2>5, <2>6
<1> HIDE DEF Round, Loops, base
<1>5. \E h : h = RunTo(h, n)
  <2> DEFINE T == {k \in 1 .. n + 1 : \E h : h = RunTo(h, k - 1)}
  <2>1. 1 \in T
    <3> DEFINE g == [s \in SUBSET (1 .. 1 - 1) |-> base]
    <3>1. \A s \in SUBSET (1 .. 1 - 1) : s = {}
      OBVIOUS
    <3>2. g = RunTo(g, 1 - 1)
      BY <3>1
    <3>3. 1 \in 1 .. n + 1
      BY <1>1
    <3> HIDE DEF RunTo
    <3> QED
      BY <3>2, <3>3
  <2>2. ASSUME NEW k \in 1 .. n + 1, k < n + 1, k \in T
        PROVE  k + 1 \in T
    <3>1. PICK g : g = RunTo(g, k - 1)
      <4> HIDE DEF RunTo
      <4> QED
        BY <2>2
    <3> DEFINE h == [s \in SUBSET (1 .. k) |->
                       IF k \in s THEN Round(g[s \ {k}], f.nodes[k]) ELSE g[s]]
    <3>2. \A s \in SUBSET (1 .. k - 1) : g[s] = Step(g, s)
      <4> HIDE DEF Step
      <4> QED
        BY <3>1
    <3>3. ASSUME NEW s \in SUBSET (1 .. k)
          PROVE  h[s] = Step(h, s)
      <4>1. CASE k \in s
        <5>1. Max(s) = k
          <6>1. s \in SUBSET Int /\ \A x \in s : x <= k
            OBVIOUS
          <6> QED
            BY <6>1, <4>1, MaxIs
        <5>2. h[s \ {k}] = g[s \ {k}]
          OBVIOUS
        <5> QED
          BY <4>1, <5>1, <5>2
      <4>2. CASE k \notin s
        <5>1. s \in SUBSET (1 .. k - 1)
          BY <4>2
        <5>2. h[s] = g[s] /\ h[s \ {Max(s)}] = g[s \ {Max(s)}]
          BY <4>2
        <5> HIDE DEF h
        <5> QED
          BY <3>2, <5>1, <5>2
      <4> QED
        BY <4>1, <4>2
    <3> HIDE DEF Step
    <3>4. h = RunTo(h, k)
      BY <3>3
    <3>5. (k + 1) - 1 = k /\ k + 1 \in 1 .. n + 1
      BY <2>2
    <3> HIDE DEF RunTo
    <3> QED
      BY <3>4, <3>5
  <2> HIDE DEF RunTo
  <2>3. n + 1 \in T
    <3> HIDE DEF T
    <3>1. n + 1 \in Nat /\ n + 1 \in 1 .. n + 1
      BY <1>1
    <3>2. 1 .. n + 1 \subseteq T
      BY <2>1, <2>2, <3>1, IntervalInduction
    <3> QED
      BY <3>1, <3>2
  <2>4. (n + 1) - 1 = n
    BY <1>1
  <2> QED
    BY <2>3, <2>4
<1>6. iter = RunTo(iter, n)
  <2> HIDE DEF RunTo
  <2> QED
    BY <1>5
<1> HIDE DEF iter, n
<1>7. \A s \in SUBSET (1 .. n) : iter[s] = Step(iter, s)
  <2> HIDE DEF Step
  <2> QED
    BY <1>6
<1>8. ASSUME NEW k \in 1 .. n, iter[1 .. k - 1] \in Loops(k - 1)
      PROVE  iter[1 .. k] \in Loops(k)
  <2>1. Max(1 .. k) = k /\ (1 .. k) \ {k} = 1 .. k - 1 /\ 1 .. k # {}
    <3>1. k \in Nat /\ k > 0
      BY <1>1
    <3> QED
      BY <3>1, LastOfInterval
  <2>2. 1 .. k \in SUBSET (1 .. n)
    BY <1>1
  <2>3. iter[1 .. k] = Round(iter[1 .. k - 1], f.nodes[k])
    BY <1>7, <2>1, <2>2
  <2> QED
    BY <1>4, <1>8, <2>3
<1>9. iter[{}] \in Loops(0)
  BY <1>3, <1>7
<1>10. iter[1 .. n] \in Loops(n)
  <2> DEFINE T == {k \in 1 .. n : iter[1 .. k] \in Loops(k)}
  <2>1. CASE n = 0
    <3>1. 1 .. 0 = {}
      OBVIOUS
    <3> QED
      BY <2>1, <3>1, <1>9
  <2>2. CASE n > 0
    <3>1. 1 \in T
      <4>1. 1 .. 1 - 1 = {} /\ 1 - 1 = 0 /\ 1 \in 1 .. n
        BY <2>2, <1>1
      <4> QED
        BY <4>1, <1>8, <1>9
    <3>2. ASSUME NEW i \in 1 .. n, i < n, i \in T
          PROVE  i + 1 \in T
      <4>1. i + 1 \in 1 .. n /\ (i + 1) - 1 = i
        BY <3>2, <1>1
      <4> QED
        BY <3>2, <4>1, <1>8
    <3> HIDE DEF T
    <3>3. 1 .. n \subseteq T
      BY <1>1, <3>1, <3>2, IntervalInduction
    <3>4. n \in T
      BY <2>2, <1>1, <3>3
    <3> QED
      BY <3>4 DEF T
  <2> QED
    BY <2>1, <2>2, <1>1
<1>11. iter[1 .. n].fleet \in GoodFleets(gone)
  BY <1>10 DEF Loops
<1> QED
  BY <1>2, <1>11

-----------------------------------------------------------------------------
(* The controllers shown *)

IsListOf(s, accounts) == s \in Seq(Accounts) /\ IsInjective(s) /\ Range(s) = accounts

LEMMA AppendedList ==
    ASSUME NEW s, NEW accounts, IsListOf(s, accounts), NEW a \in Accounts, a \notin accounts
    PROVE  IsListOf(Append(s, a), accounts \cup {a})
<1> DEFINE t == Append(s, a)
           n == Len(s)
<1>1. /\ s \in Seq(Accounts) /\ n \in Nat /\ DOMAIN s = 1 .. n
      /\ \A i, j \in 1 .. n : s[i] = s[j] => i = j
      /\ accounts = {s[i] : i \in 1 .. n}
  BY DEF IsListOf, IsInjective, Range
<1>2. /\ t \in Seq(Accounts) /\ Len(t) = n + 1 /\ DOMAIN t = 1 .. n + 1
      /\ \A i \in 1 .. n : t[i] = s[i]
      /\ t[n + 1] = a
  <2>1. /\ t \in Seq(Accounts) /\ Len(t) = n + 1
        /\ \A i \in 1 .. n : t[i] = s[i]
        /\ t[n + 1] = a
    BY <1>1, AppendProperties
  <2> HIDE DEF t
  <2> QED
    BY <2>1, LenProperties
<1> HIDE DEF t, n
<1>3. \A i \in 1 .. n + 1 : i = n + 1 \/ i \in 1 .. n
  BY <1>1
<1>4. n + 1 \in 1 .. n + 1 /\ 1 .. n \subseteq 1 .. n + 1
  BY <1>1
<1>5. \A i \in 1 .. n : s[i] # a
  BY <1>1
<1>6. \A i, j \in 1 .. n + 1 : t[i] = t[j] => i = j
  BY <1>1, <1>2, <1>3, <1>5
<1>7. {t[i] : i \in 1 .. n + 1} = accounts \cup {a}
  BY <1>1, <1>2, <1>3, <1>4
<1> QED
  BY <1>2, <1>6, <1>7 DEF IsListOf, IsInjective, Range, t

\* handleRoleRevoked: the loop takes the account out wherever it is.
LEMMA RevokedList ==
    ASSUME NEW list, NEW accounts, IsListOf(list, accounts), NEW account
    PROVE  LET Keep(kept, a) == IF a = account THEN kept ELSE Append(kept, a)
           IN  IsListOf(FoldLeft(Keep, <<>>, list), accounts \ {account})
<1> DEFINE Keep(kept, a) == IF a = account THEN kept ELSE Append(kept, a)
           n == Len(list)
           States == Seq(Accounts)
           Step(h, s) == IF s = {} THEN <<>> ELSE Keep(h[s \ {Max(s)}], list[Max(s)])
           Run(h) == [s \in SUBSET (1 .. n) |-> Step(h, s)]
           iter == CHOOSE h : h = Run(h)
           step == [q \in States \X (1 .. n) |-> Keep(q[1], list[q[2]])]
           First(k) == {list[i] : i \in 1 .. k}
           T == {k \in 1 .. n : IsListOf(iter[1 .. k], First(k) \ {account})}
<1>1. /\ n \in Nat /\ DOMAIN list = 1 .. n /\ \A i \in 1 .. n : list[i] \in Accounts
      /\ \A i, j \in 1 .. n : list[i] = list[j] => i = j
      /\ accounts = First(n)
  BY DEF IsListOf, IsInjective, Range
<1>2. FoldLeft(Keep, <<>>, list) = iter[1 .. n]
  BY <1>1 DEF FoldLeft, MapThenFoldSet
<1> HIDE DEF States, n
<1>3. \A st \in States, i \in 1 .. n : Keep(st, list[i]) \in States
  BY <1>1, AppendProperties DEF States
<1>4. step \in [States \X (1 .. n) -> States]
  <2> HIDE DEF Keep
  <2> QED
    BY <1>3
<1>5. \E h : h = Run(h)
  <2>1. PICK g \in [SUBSET (1 .. n) -> States] : IsStepwise(g, <<>>, step, n)
    <3> HIDE DEF step
    <3>1. <<>> \in States
      BY DEF States
    <3> QED
      BY <1>1, <1>4, <3>1, RunExists
  <2>2. ASSUME NEW s \in SUBSET (1 .. n)
        PROVE  g[s] = Step(g, s)
    <3>1. s # {} => Max(s) \in 1 .. n /\ g[s \ {Max(s)}] \in States
      BY <1>1, MaxInSet
    <3>2. g[s] = IF s = {} THEN <<>> ELSE step[<<g[s \ {Max(s)}], Max(s)>>]
      BY <2>1 DEF IsStepwise
    <3> HIDE DEF Keep
    <3> QED
      BY <3>1, <3>2
  <2> HIDE DEF Step
  <2>3. g = Run(g)
    BY <2>2
  <2> QED
    BY <2>3
<1>6. iter = Run(iter)
  <2> HIDE DEF Run
  <2> QED
    BY <1>5
<1> HIDE DEF iter
<1>7. \A s \in SUBSET (1 .. n) : iter[s] = Step(iter, s)
  <2> HIDE DEF Step
  <2> QED
    BY <1>6
<1>8. ASSUME NEW k \in 1 .. n, IsListOf(iter[1 .. k - 1], First(k - 1) \ {account})
      PROVE  IsListOf(iter[1 .. k], First(k) \ {account})
  <2>1. Max(1 .. k) = k /\ (1 .. k) \ {k} = 1 .. k - 1 /\ 1 .. k # {}
    <3>1. k \in Nat /\ k > 0
      BY <1>1
    <3> QED
      BY <3>1, LastOfInterval
  <2>2. 1 .. k \in SUBSET (1 .. n)
    BY <1>1
  <2> DEFINE before == iter[1 .. k - 1]
             rest == First(k - 1) \ {account}
  <2>3. iter[1 .. k] = Keep(before, list[k])
    BY <1>7, <2>1, <2>2
  <2>4. First(k) = First(k - 1) \cup {list[k]}
    <3>1. 1 .. k = (1 .. k - 1) \cup {k}
      BY <1>1
    <3> QED
      BY <3>1
  <2>5. list[k] \notin First(k - 1)
    <3>1. \A i \in 1 .. k - 1 : i \in 1 .. n /\ i # k
      BY <1>1
    <3> QED
      BY <1>1, <3>1
  <2>6. list[k] \in Accounts
    BY <1>1
  <2>7. IsListOf(before, rest)
    BY <1>8
  <2> HIDE DEF First, before
  <2>8. CASE list[k] = account
    <3>1. First(k) \ {account} = rest /\ iter[1 .. k] = before
      BY <2>3, <2>4, <2>8
    <3> QED
      BY <2>7, <3>1
  <2>9. CASE list[k] # account
    <3>1. First(k) \ {account} = rest \cup {list[k]} /\ iter[1 .. k] = Append(before, list[k])
      BY <2>3, <2>4, <2>9
    <3>2. list[k] \notin rest
      BY <2>5
    <3> HIDE DEF rest
    <3> QED
      BY <2>6, <2>7, <3>1, <3>2, AppendedList
  <2> QED
    BY <2>8, <2>9
<1>9. IsListOf(<<>>, {})
  BY DEF IsListOf, IsInjective, Range
<1>10. IsListOf(iter[{}], {})
  BY <1>7, <1>9
<1>11. IsListOf(iter[1 .. n], First(n) \ {account})
  <2>1. CASE n = 0
    <3>1. 1 .. 0 = {} /\ First(0) \ {account} = {}
      OBVIOUS
    <3> HIDE DEF First
    <3> QED
      BY <2>1, <3>1, <1>10
  <2>2. CASE n > 0
    <3>1. 1 \in T
      <4>1. 1 .. 1 - 1 = {} /\ 1 \in 1 .. n
        BY <2>2, <1>1
      <4>2. First(1 - 1) \ {account} = {}
        BY <4>1
      <4> HIDE DEF First
      <4>3. IsListOf(iter[1 .. 1 - 1], First(1 - 1) \ {account})
        BY <4>1, <4>2, <1>10
      <4> QED
        BY <4>1, <4>3, <1>8
    <3>2. ASSUME NEW i \in 1 .. n, i < n, i \in T
          PROVE  i + 1 \in T
      <4>1. i + 1 \in 1 .. n /\ (i + 1) - 1 = i
        BY <3>2, <1>1
      <4> HIDE DEF First
      <4> QED
        BY <3>2, <4>1, <1>8
    <3> HIDE DEF T
    <3>3. 1 .. n \subseteq T
      BY <1>1, <3>1, <3>2, IntervalInduction
    <3>4. n \in T
      BY <2>2, <1>1, <3>3
    <3> QED
      BY <3>4 DEF T
  <2> QED
    BY <2>1, <2>2, <1>1
<1>12. IsListOf(FoldLeft(Keep, <<>>, list), accounts \ {account})
  BY <1>1, <1>2, <1>11
<1> QED
  BY <1>12

-----------------------------------------------------------------------------
(* The nodes' invariant *)

\* Who gave its permission up is among resigned until it is removed or added again.
NodesInv ==
    /\ streamExists \in BOOLEAN
    /\ fleet \in GoodFleets(resigned)
    /\ fleet.publishers \cap resigned = {}
    /\ shown = [nodes |-> fleet.nodes, controllers |-> shown.controllers]
    /\ IsListOf(shown.controllers, controllers)

LEMMA ListedInRange ==
    ASSUME NEW f \in Fleets, Indexed(f)
    PROVE  /\ Range(f.nodes) = {n \in NodeAddresses : f.nodeIndex[n] # 0}
           /\ IsInjective(f.nodes)
<1>1. /\ f.nodes \in Seq(NodeAddresses) /\ Len(f.nodes) \in Nat
      /\ DOMAIN f.nodes = 1 .. Len(f.nodes)
      /\ \A i \in 1 .. Len(f.nodes) : f.nodes[i] \in NodeAddresses
  BY DEF Fleets
<1>2. \A i \in 1 .. Len(f.nodes) : f.nodeIndex[f.nodes[i]] = i
  BY DEF Indexed
<1>3. \A n \in NodeAddresses : f.nodeIndex[n] # 0 =>
          f.nodeIndex[n] \in 1 .. Len(f.nodes) /\ f.nodes[f.nodeIndex[n]] = n
  BY DEF Indexed
<1>4. IsInjective(f.nodes)
  BY <1>1, <1>2 DEF IsInjective
<1>5. ASSUME NEW n \in Range(f.nodes)
      PROVE  n \in NodeAddresses /\ f.nodeIndex[n] # 0
  BY <1>1, <1>2 DEF Range
<1>6. ASSUME NEW n \in NodeAddresses, f.nodeIndex[n] # 0
      PROVE  n \in Range(f.nodes)
  BY <1>1, <1>3, <1>6 DEF Range
<1> QED
  BY <1>4, <1>5, <1>6

\* The invariant says more than what the run checks.
LEMMA NodesInvSuffices == NodesInv => NodesArePublishers
<1> SUFFICES ASSUME NodesInv PROVE NodesArePublishers
  OBVIOUS
<1>1. /\ fleet \in Fleets /\ Indexed(fleet) /\ Permitted(fleet, resigned)
      /\ fleet.publishers \cap resigned = {} /\ fleet.publishers \in SUBSET NodeAddresses
      /\ DOMAIN fleet.nodes = 1 .. Len(fleet.nodes)
  BY DEF NodesInv, GoodFleets, Fleets
<1>2. /\ Range(fleet.nodes) = {n \in NodeAddresses : fleet.nodeIndex[n] # 0}
      /\ IsInjective(fleet.nodes)
  BY <1>1, ListedInRange
<1>3. ASSUME NEW n \in NodeAddresses
      PROVE  fleet.nodeIndex[n] = IF Contains(fleet.nodes, n)
                                  THEN CHOOSE i \in DOMAIN fleet.nodes : fleet.nodes[i] = n
                                  ELSE 0
  <2>1. CASE Contains(fleet.nodes, n)
    <3>1. PICK i \in DOMAIN fleet.nodes : fleet.nodes[i] = n
      BY <2>1, <1>1 DEF Contains
    <3> DEFINE j == CHOOSE k \in DOMAIN fleet.nodes : fleet.nodes[k] = n
    <3>2. j \in DOMAIN fleet.nodes /\ fleet.nodes[j] = n
      BY <3>1
    <3> HIDE DEF j
    <3>3. fleet.nodeIndex[n] = j
      BY <3>2, <1>1 DEF Indexed
    <3> QED
      BY <2>1, <3>3 DEF j
  <2>2. CASE ~Contains(fleet.nodes, n)
    <3>1. fleet.nodeIndex[n] = 0
      BY <2>2, <1>1 DEF Indexed, Contains
    <3> QED
      BY <2>2, <3>1
  <2> QED
    BY <2>1, <2>2
<1>4. fleet.publishers = Range(fleet.nodes) \ resigned
  BY <1>1, <1>2 DEF Permitted
<1>5. /\ shown.nodes = fleet.nodes
      /\ IsInjective(shown.controllers) /\ Range(shown.controllers) = controllers
  BY DEF NodesInv, IsListOf
<1> QED
  BY <1>2, <1>3, <1>4, <1>5 DEF NodesArePublishers

LEMMA InitNodesInv == NodesInit => NodesInv
<1> SUFFICES ASSUME NodesInit PROVE NodesInv
  OBVIOUS
<1>1. fleet \in Fleets
  <2>1. /\ <<>> \in Seq(NodeAddresses) /\ [n \in NodeAddresses |-> 0] \in [NodeAddresses -> Nat]
    OBVIOUS
  <2> QED
    BY <2>1 DEF NodesInit, NoFleet, Fleets
<1>2. Indexed(fleet) /\ Permitted(fleet, resigned)
  BY DEF NodesInit, NoFleet, Indexed, Permitted
<1>3. IsListOf(<<AccountOwner>>, {AccountOwner})
  <2>1. IsListOf(<<>>, {})
    BY DEF IsListOf, IsInjective, Range
  <2>2. AccountOwner \in Accounts /\ Append(<<>>, AccountOwner) = <<AccountOwner>>
    BY NodesAssumption
  <2>3. {} \cup {AccountOwner} = {AccountOwner}
    OBVIOUS
  <2>4. IsListOf(Append(<<>>, AccountOwner), {} \cup {AccountOwner})
    BY <2>1, <2>2, AppendedList
  <2> QED
    BY <2>2, <2>3, <2>4
<1> QED
  BY <1>1, <1>2, <1>3 DEF NodesInv, NodesInit, NoFleet, GoodFleets

\* A call that leaves a good fleet, whoever had resigned before.
LEMMA FleetBecomesKeepsInv ==
    ASSUME NodesInv, NEW f \in GoodFleets(resigned), FleetBecomes(f)
    PROVE  NodesInv'
<1>1. /\ f \in Fleets /\ Indexed(f) /\ Permitted(f, resigned)
      /\ f.publishers \in SUBSET NodeAddresses
  BY DEF GoodFleets, Fleets
<1>2. /\ fleet' = f
      /\ shown' = [shown EXCEPT !.nodes = f.nodes]
      /\ resigned' = (resigned \cap Range(f.nodes)) \ f.publishers
      /\ streamExists' = streamExists /\ controllers' = controllers
  BY DEF FleetBecomes, HandleNodesSet
<1>3. Range(f.nodes) = {n \in NodeAddresses : f.nodeIndex[n] # 0}
  BY <1>1, ListedInRange
<1>4. Permitted(f, resigned')
  BY <1>1, <1>2, <1>3 DEF Permitted
<1>5. f \in GoodFleets(resigned')
  BY <1>1, <1>4 DEF GoodFleets
<1>6. /\ shown'.controllers = shown.controllers
      /\ shown' = [nodes |-> f.nodes, controllers |-> shown'.controllers]
  <2>1. shown = [nodes |-> fleet.nodes, controllers |-> shown.controllers]
    BY DEF NodesInv
  <2> QED
    BY <2>1, <1>2
<1> QED
  BY <1>2, <1>5, <1>6 DEF NodesInv

LEMMA NodeCallsKeepInv ==
    ASSUME NodesInv, NEW sender, NEW list \in Lists, NEW removed \in Lists,
           SetNodeAddresses(sender, list) \/ UpdateNodeAddresses(sender, list, removed)
    PROVE  NodesInv'
<1>1. \A l \in Lists : l \in Seq(NodeAddresses)
  BY NodesAssumption DEF Lists
<1>2. streamExists \in BOOLEAN /\ fleet \in GoodFleets(resigned)
  BY DEF NodesInv
<1>3. AllAdded(fleet, list) \in GoodFleets(resigned)
  BY <1>1, <1>2, AllAddedIsGood
<1>4. OthersRemoved(AllAdded(fleet, list), list) \in GoodFleets(resigned)
  BY <1>1, <1>2, <1>3, OthersRemovedIsGood
<1>5. FoldLeft(RemoveIfListed, AllAdded(fleet, list), removed) \in GoodFleets(resigned)
  BY <1>1, <1>2, <1>3, AllRemovedIsGood
<1>6. CASE SetNodeAddresses(sender, list)
  BY <1>4, <1>6, FleetBecomesKeepsInv DEF SetNodeAddresses
<1>7. CASE UpdateNodeAddresses(sender, list, removed)
  BY <1>5, <1>7, FleetBecomesKeepsInv DEF UpdateNodeAddresses
<1> QED
  BY <1>6, <1>7

LEMMA ControllerStepsKeepInv ==
    ASSUME NodesInv, NEW account \in Accounts,
           GrantController(account) \/ RevokeController(account)
    PROVE  NodesInv'
<1>1. /\ fleet' = fleet /\ streamExists' = streamExists /\ resigned' = resigned
  BY DEF GrantController, RevokeController
<1>2. /\ shown = [nodes |-> fleet.nodes, controllers |-> shown.controllers]
      /\ IsListOf(shown.controllers, controllers)
  BY DEF NodesInv
<1>3. /\ shown' = [nodes |-> fleet.nodes, controllers |-> shown'.controllers]
      /\ IsListOf(shown'.controllers, controllers')
  <2>1. CASE GrantController(account)
    <3>1. /\ account \notin controllers /\ controllers' = controllers \cup {account}
          /\ shown' = [shown EXCEPT !.controllers = Append(shown.controllers, account)]
      BY <2>1 DEF GrantController, HandleRoleGranted
    <3>2. /\ shown'.controllers = Append(shown.controllers, account)
          /\ shown' = [nodes |-> fleet.nodes, controllers |-> shown'.controllers]
      <4> DEFINE longer == Append(shown.controllers, account)
      <4>1. shown' = [shown EXCEPT !.controllers = longer]
        BY <3>1
      <4> HIDE DEF longer
      <4>2. shown'.controllers = longer
        BY <1>2, <4>1
      <4>3. shown' = [nodes |-> fleet.nodes, controllers |-> shown'.controllers]
        BY <1>2, <4>1
      <4> QED
        BY <4>2, <4>3 DEF longer
    <3>3. IsListOf(Append(shown.controllers, account), controllers \cup {account})
      BY <1>2, <3>1, AppendedList
    <3> QED
      BY <3>1, <3>2, <3>3
  <2>2. CASE RevokeController(account)
    <3> DEFINE Keep(kept, a) == IF a = account THEN kept ELSE Append(kept, a)
               kept == FoldLeft(Keep, <<>>, shown.controllers)
    <3>1. /\ controllers' = controllers \ {account}
          /\ shown' = [shown EXCEPT !.controllers = kept]
      BY <2>2 DEF RevokeController, HandleRoleRevoked
    <3>2. IsListOf(kept, controllers \ {account})
      BY <1>2, RevokedList
    <3> HIDE DEF kept
    <3>3. /\ shown'.controllers = kept
          /\ shown' = [nodes |-> fleet.nodes, controllers |-> shown'.controllers]
      BY <1>2, <3>1
    <3> QED
      BY <3>1, <3>2, <3>3
  <2> QED
    BY <2>1, <2>2
<1> QED
  BY <1>1, <1>3 DEF NodesInv

LEMMA GiveUpKeepsInv ==
    ASSUME NodesInv, NEW n \in NodeAddresses, GiveUpPublishing(n)
    PROVE  NodesInv'
<1>1. /\ fleet \in Fleets /\ Indexed(fleet) /\ Permitted(fleet, resigned)
      /\ fleet.publishers \cap resigned = {}
      /\ fleet = [nodes |-> fleet.nodes, nodeIndex |-> fleet.nodeIndex,
                  publishers |-> fleet.publishers, ok |-> fleet.ok]
  BY DEF NodesInv, GoodFleets, Fleets
<1>2. /\ fleet' = [fleet EXCEPT !.publishers = fleet.publishers \ {n}]
      /\ resigned' = resigned \cup {n}
      /\ streamExists' = streamExists /\ controllers' = controllers /\ shown' = shown
  BY DEF GiveUpPublishing
<1>3. /\ fleet'.nodes = fleet.nodes /\ fleet'.nodeIndex = fleet.nodeIndex
      /\ fleet'.publishers = fleet.publishers \ {n}
  BY <1>1, <1>2
<1>4. fleet' \in Fleets
  BY <1>1, <1>2 DEF Fleets
<1>5. Indexed(fleet') /\ Permitted(fleet', resigned')
  BY <1>1, <1>2, <1>3 DEF Indexed, Permitted
<1>6. fleet'.publishers \cap resigned' = {}
  BY <1>1, <1>2, <1>3
<1>7. fleet' \in GoodFleets(resigned')
  BY <1>4, <1>5 DEF GoodFleets
<1> QED
  BY <1>2, <1>3, <1>6, <1>7 DEF NodesInv

LEMMA NextNodesInv == NodesInv /\ [NodesNext]_nodeVars => NodesInv'
<1> SUFFICES ASSUME NodesInv, [NodesNext]_nodeVars PROVE NodesInv'
  OBVIOUS
<1>1. CASE \E sender \in Accounts, list \in Lists : SetNodeAddresses(sender, list)
  BY <1>1, NodeCallsKeepInv
<1>2. CASE \E sender \in Accounts, addNodes, removeNodes \in Lists :
             UpdateNodeAddresses(sender, addNodes, removeNodes)
  BY <1>2, NodeCallsKeepInv
<1>3. CASE \E account \in Accounts : GrantController(account)
  BY <1>3, ControllerStepsKeepInv
<1>4. CASE \E account \in Accounts : RevokeController(account)
  BY <1>4, ControllerStepsKeepInv
<1>5. CASE \E sender \in Accounts : EmptyStreamMetadata(sender)
  BY <1>5 DEF EmptyStreamMetadata, NodesInv
<1>6. CASE \E n \in NodeAddresses : GiveUpPublishing(n)
  BY <1>6, GiveUpKeepsInv
<1>7. CASE UNCHANGED nodeVars
  BY <1>7 DEF nodeVars, NodesInv
<1> QED
  BY <1>1, <1>2, <1>3, <1>4, <1>5, <1>6, <1>7 DEF NodesNext

\* NodesAreAlwaysPublishers: for any nodes and accounts and lists of any length, with
\* duplicates and with nodes that are added and removed in the same call, the array
\* of NodeModule holds every node once and its index the positions, exactly the nodes
\* may publish but for those that gave it up, and the subgraph shows the nodes and the
\* controllers.
THEOREM NodesAreAlwaysPublishers == NodesSpec => []NodesArePublishers
<1>1. NodesSpec => []NodesInv
  BY InitNodesInv, NextNodesInv, PTL DEF NodesSpec
<1> QED
  BY <1>1, NodesInvSuffices, PTL

\* The same of the contract as a whole, whose halves take turns.
LEMMA NodesOfContract == ContractSpec => []NodesArePublishers
<1>1. ContractInit => NodesInv
  BY InitNodesInv DEF ContractInit
<1>2. NodesInv /\ [ContractNext]_contractVars => NodesInv'
  <2> SUFFICES ASSUME NodesInv, [ContractNext]_contractVars PROVE NodesInv'
    OBVIOUS
  <2>1. [NodesNext]_nodeVars
    BY DEF ContractNext, contractVars
  <2> QED
    BY <2>1, NextNodesInv
<1> QED
  BY <1>1, <1>2, NodesInvSuffices, PTL DEF ContractSpec

-----------------------------------------------------------------------------
(* Arithmetic *)

LEMMA QuotientIsNat ==
    ASSUME NEW x \in Nat, NEW d \in Nat \ {0}
    PROVE  x \div d \in Nat
<1> DEFINE q == x \div d
           r == x % d
<1>1. q \in Int /\ r \in Int /\ x = d * q + r /\ 0 <= r /\ r < d
  OBVIOUS
<1> HIDE DEF q, r
<1>2. d * (q + 1) = d * q + d
  BY <1>1
<1>3. d * (q + 1) > 0
  BY <1>1, <1>2
<1>4. q + 1 > 0
  BY <1>1, <1>3
<1> QED
  BY <1>1, <1>4 DEF q

\* A fraction of an amount is at most the amount.
LEMMA FractionIsPart ==
    ASSUME NEW x \in Nat, NEW fraction \in 0 .. Ether
    PROVE  (x * fraction) \div Ether \in 0 .. x
<1>1. Ether \in Nat \ {0} /\ fraction \in Nat /\ fraction <= Ether
  BY OperatorAssumption
<1>2. x * fraction \in Nat /\ x * fraction <= x * Ether
  BY <1>1
<1> DEFINE y == x * fraction
           q == y \div Ether
           r == y % Ether
<1> HIDE DEF y
<1>3. q \in Int /\ r \in Int /\ y = Ether * q + r /\ 0 <= r /\ r < Ether
  BY <1>1, <1>2 DEF y
<1>4. q \in Nat
  BY <1>1, <1>2, QuotientIsNat DEF y
<1> HIDE DEF q, r
<1>5. Ether * q <= x * Ether
  BY <1>1, <1>2, <1>3, <1>4 DEF y
<1>6. q <= x
  BY <1>1, <1>4, <1>5
<1> QED
  BY <1>4, <1>6 DEF q, y

LEMMA AtMostIs ==
    ASSUME NEW x \in Int, NEW y \in Int
    PROVE  AtMost(x, y) \in {x, y} /\ AtMost(x, y) <= x /\ AtMost(x, y) <= y
  BY DEF AtMost

-----------------------------------------------------------------------------
(* Holdings and transactions *)

Entries == [delegator : Holders, amount : Nat]

\* The types of the accounts: no DATA and no operator token is ever owed.
Holdings ==
    [balance : Nat, tokens : [Holders -> Nat],
     sponsorships : SUBSET Sponsorships,
     stakedInto : [Sponsorships -> Int], slashedIn : [Sponsorships -> Int],
     totalStaked : Int, totalSlashed : Int,
     queue : Seq(Entries), nextIndex : Int, cut : 0 .. Ether, voter : BOOLEAN]

\* A transaction is a record; whether its accounts make sense is another question.
IsTx(tx) == tx = [op |-> tx.op, log |-> tx.log, ok |-> tx.ok] /\ tx.ok \in BOOLEAN

Sound(tx) == IsTx(tx) /\ (tx.ok => tx.op \in Holdings)

\* The part of the accounts that is about stakes has not changed.
SameStakes(a, b) ==
    /\ b.sponsorships = a.sponsorships
    /\ b.stakedInto = a.stakedInto /\ b.slashedIn = a.slashedIn
    /\ b.totalStaked = a.totalStaked /\ b.totalSlashed = a.totalSlashed

LEMMA NewBalance ==
    ASSUME NEW a \in Holdings, NEW x \in Nat
    PROVE  LET b == [a EXCEPT !.balance = x]
           IN  b \in Holdings /\ b.balance = x /\ SameStakes(a, b) /\ b.tokens = a.tokens
  BY DEF Holdings, SameStakes

LEMMA NewTokens ==
    ASSUME NEW a \in Holdings, NEW h \in Holders, NEW x \in Nat
    PROVE  LET b == [a EXCEPT !.tokens[h] = x]
           IN  b \in Holdings /\ b.balance = a.balance /\ SameStakes(a, b)
  BY DEF Holdings, SameStakes

LEMMA NewQueue ==
    ASSUME NEW a \in Holdings, NEW x \in Seq(Entries)
    PROVE  LET b == [a EXCEPT !.queue = x]
           IN  b \in Holdings /\ b.balance = a.balance /\ SameStakes(a, b) /\ b.tokens = a.tokens
  BY DEF Holdings, SameStakes

LEMMA NewVoter ==
    ASSUME NEW a \in Holdings, NEW x \in BOOLEAN
    PROVE  LET b == [a EXCEPT !.voter = x]
           IN  b \in Holdings /\ b.balance = a.balance /\ SameStakes(a, b) /\ b.tokens = a.tokens
  BY DEF Holdings, SameStakes

LEMMA LogKeeps ==
    ASSUME NEW tx, IsTx(tx), NEW event
    PROVE  /\ IsTx(Log(tx, event))
           /\ Log(tx, event).op = tx.op
           /\ Log(tx, event).ok = tx.ok
  BY DEF IsTx, Log

LEMMA ReportsKeep ==
    ASSUME NEW tx, IsTx(tx), NEW h
    PROVE  /\ IsTx(BalanceUpdate(tx, h)) /\ IsTx(OperatorValueUpdate(tx))
           /\ BalanceUpdate(tx, h).op = tx.op /\ BalanceUpdate(tx, h).ok = tx.ok
           /\ OperatorValueUpdate(tx).op = tx.op /\ OperatorValueUpdate(tx).ok = tx.ok
  BY LogKeeps DEF BalanceUpdate, OperatorValueUpdate

LEMMA QueueReportKeeps ==
    ASSUME NEW tx, IsTx(tx), NEW index, NEW amount
    PROVE  /\ IsTx(QueueUpdated(tx, index, amount))
           /\ QueueUpdated(tx, index, amount).op = tx.op
           /\ QueueUpdated(tx, index, amount).ok = tx.ok
  BY LogKeeps DEF QueueUpdated

LEMMA SupplyIsNat ==
    ASSUME NEW a \in Holdings
    PROVE  Supply(a) \in Nat /\ \A h \in Holders : a.tokens[h] <= Supply(a)
<1>1. a.tokens \in [Holders -> Nat] /\ DOMAIN a.tokens = Holders /\ IsFiniteSet(Holders)
  BY OperatorAssumption DEF Holdings
<1>2. Supply(a) = SumFunctionOnSet(a.tokens, Holders)
  BY <1>1, SumOverDomain DEF Supply
<1> QED
  BY <1>1, <1>2, SumOfNaturals

LEMMA ValueIsInt ==
    ASSUME NEW a \in Holdings
    PROVE  /\ a.balance \in Nat /\ a.totalStaked \in Int /\ a.totalSlashed \in Int
           /\ ValueOf(a) \in Int
  BY DEF Holdings, ValueOf

LEMMA SoundValue ==
    ASSUME NEW a \in Holdings, a.totalSlashed <= a.totalStaked
    PROVE  ValueOf(a) >= 0
  BY ValueIsInt DEF ValueOf

LEMMA SupplyChanges ==
    ASSUME NEW a \in Holdings, NEW b \in Holdings, NEW h \in Holders,
           \A g \in Holders \ {h} : b.tokens[g] = a.tokens[g]
    PROVE  Supply(b) = Supply(a) - a.tokens[h] + b.tokens[h]
<1>1. /\ a.tokens \in [Holders -> Nat] /\ DOMAIN a.tokens = Holders
      /\ b.tokens \in [Holders -> Nat] /\ DOMAIN b.tokens = Holders
      /\ IsFiniteSet(Holders)
  BY OperatorAssumption DEF Holdings
<1> DEFINE f == a.tokens
           g == b.tokens
<1>2. Supply(a) = SumFunctionOnSet(f, Holders) /\ Supply(b) = SumFunctionOnSet(g, Holders)
  BY <1>1, SumOverDomain DEF Supply
<1>3. /\ \A y \in Holders : f[y] \in Int /\ g[y] \in Int
      /\ \A y \in Holders \ {h} : g[y] = f[y]
  BY <1>1
<1> HIDE DEF f, g
<1>4. SumFunctionOnSet(g, Holders) = SumFunctionOnSet(f, Holders) - f[h] + g[h]
  BY <1>1, <1>3, SumChangesAtOne
<1> QED
  BY <1>2, <1>4 DEF f, g

LEMMA NewSupply ==
    ASSUME NEW a \in Holdings, NEW h \in Holders, NEW x \in Nat
    PROVE  LET b == [a EXCEPT !.tokens[h] = x]
           IN  /\ Supply(b) = Supply(a) - a.tokens[h] + x
               /\ b.tokens[h] = x
               /\ \A g \in Holders \ {h} : b.tokens[g] = a.tokens[g]
<1> DEFINE b == [a EXCEPT !.tokens[h] = x]
<1>1. b \in Holdings
  BY NewTokens
<1>2. b.tokens[h] = x /\ \A g \in Holders \ {h} : b.tokens[g] = a.tokens[g]
  BY DEF Holdings
<1> HIDE DEF b
<1>3. Supply(b) = Supply(a) - a.tokens[h] + b.tokens[h]
  BY <1>1, <1>2, SupplyChanges
<1> QED
  BY <1>2, <1>3 DEF b

LEMMA ConversionsAreNat ==
    ASSUME NEW a \in Holdings, NEW x \in Nat, ValueOf(a) >= 0
    PROVE  /\ ValueOf(a) \in Nat
           /\ TokensForData(a, x) \in Nat
           /\ TokensToData(a, x) \in Nat
           /\ x <= ValueOf(a) => MintedFor(a, x) \in Nat
<1> DEFINE supply == Supply(a)
           value == ValueOf(a)
<1>1. supply \in Nat
  BY SupplyIsNat
<1>2. value \in Nat
  BY DEF Holdings, ValueOf
<1> HIDE DEF supply, value
<1>3. x * supply \in Nat /\ x * value \in Nat
  BY <1>1, <1>2
<1>4. ASSUME value # 0 PROVE (x * supply + value - 1) \div value \in Nat
  <2>1. x * supply + value - 1 \in Nat
    BY <1>2, <1>3, <1>4
  <2> QED
    BY <1>2, <1>4, <2>1, QuotientIsNat
<1>5. ASSUME supply # 0 PROVE (x * value) \div supply \in Nat
  BY <1>1, <1>3, <1>5, QuotientIsNat
<1>6. ASSUME x <= value, x # value PROVE (x * supply) \div (value - x) \in Nat
  <2>1. value - x \in Nat \ {0}
    BY <1>2, <1>6
  <2> QED
    BY <1>3, <2>1, QuotientIsNat
<1>7. TokensForData(a, x) \in Nat
  BY <1>4 DEF TokensForData, supply, value
<1>8. TokensToData(a, x) \in Nat
  BY <1>5 DEF TokensToData, supply, value
<1>9. x <= ValueOf(a) => MintedFor(a, x) \in Nat
  BY <1>6 DEF MintedFor, supply, value
<1> QED
  BY <1>2, <1>7, <1>8, <1>9 DEF value

-----------------------------------------------------------------------------
(* Delegating *)

\* _delegate of DATA that has arrived
LEMMA DelegatedIs ==
    ASSUME NEW tx, Sound(tx), NEW h \in Holders, NEW data,
           tx.ok => data \in Nat /\ data <= ValueOf(tx.op)
    PROVE  LET t == Delegated(tx, h, data)
           IN  /\ IsTx(t)
               /\ t.ok => /\ tx.ok /\ t.op \in Holdings /\ SameStakes(tx.op, t.op)
                          /\ t.op.balance = tx.op.balance
               /\ (tx.ok /\ h = Owner /\ ValueOf(tx.op) # data) => t.ok
<1> DEFINE x == tx.op.tokens[h] + MintedFor(tx.op, data)
           minted == [tx EXCEPT !.op.tokens[h] = x]
           divides == Supply(tx.op) = 0 \/ ValueOf(tx.op) # data
           allowed == h = Owner \/ (/\ minted.op.tokens[h] >= MinimumDelegation
                                    /\ OwnerHasEnough(minted.op))
           event == [name |-> "Delegated", delegator |-> h, amountDataWei |-> data]
           required == Require(minted, divides /\ allowed)
           t == Delegated(tx, h, data)
<1>1. t = OperatorValueUpdate(BalanceUpdate(Log(required, event), h))
  BY DEF Delegated
<1>2. IsTx(tx)
  BY DEF Sound
<1>3. IsTx(minted) /\ minted.ok = tx.ok /\ minted.op = [tx.op EXCEPT !.tokens[h] = x]
  <2> HIDE DEF x
  <2> QED
    BY <1>2 DEF IsTx
<1>4. ASSUME tx.ok
      PROVE  minted.op \in Holdings /\ SameStakes(tx.op, minted.op)
             /\ minted.op.balance = tx.op.balance
  <2>1. /\ tx.op \in Holdings /\ data \in Nat /\ data <= ValueOf(tx.op)
        /\ ValueOf(tx.op) \in Int
    BY <1>4 DEF Sound, Holdings, ValueOf
  <2>2. MintedFor(tx.op, data) \in Nat
    BY <2>1, ConversionsAreNat
  <2>3. x \in Nat
    BY <2>1, <2>2 DEF Holdings
  <2> HIDE DEF x, minted
  <2> QED
    BY <1>3, <2>1, <2>3, NewTokens
<1> HIDE DEF minted, x
<1>5. /\ IsTx(required) /\ required.op = minted.op
      /\ required.ok => tx.ok
      /\ divides /\ allowed => required = minted
  <2> HIDE DEF divides, allowed
  <2> QED
    BY <1>3 DEF Require, IsTx, required
<1> HIDE DEF required
<1>6. IsTx(t) /\ t.op = required.op /\ t.ok = required.ok
  BY <1>1, <1>5, LogKeeps, ReportsKeep
<1> HIDE DEF t
<1>7. t.ok => tx.ok /\ t.op \in Holdings /\ SameStakes(tx.op, t.op) /\ t.op.balance = tx.op.balance
  BY <1>4, <1>5, <1>6
<1>8. tx.ok /\ h = Owner /\ ValueOf(tx.op) # data => t.ok
  BY <1>3, <1>5, <1>6
<1> QED
  BY <1>6, <1>7, <1>8 DEF t

\* _slashSelfDelegation: it fails only if there is no value to speak of.
LEMMA SlashSelfDelegationIs ==
    ASSUME NEW tx, Sound(tx), NEW data \in Nat, tx.ok => ValueOf(tx.op) >= 0
    PROVE  LET t == SlashSelfDelegation(tx, data)
           IN  /\ IsTx(t)
               /\ t.ok => /\ tx.ok /\ t.op \in Holdings /\ SameStakes(tx.op, t.op)
                          /\ t.op.balance = tx.op.balance
               /\ (tx.ok /\ ValueOf(tx.op) > 0) => t.ok
<1> DEFINE t == SlashSelfDelegation(tx, data)
<1>1. IsTx(tx) /\ tx.ok => tx.op \in Holdings /\ SameStakes(tx.op, tx.op)
  BY DEF Sound, SameStakes
<1>2. IsTx(tx)
  BY DEF Sound
<1>3. CASE tx.op.tokens[Owner] = 0
  <2>1. t = tx
    BY <1>3 DEF SlashSelfDelegation
  <2> QED
    BY <1>1, <1>2, <2>1
<1>4. CASE tx.op.tokens[Owner] # 0
  <2> DEFINE burned == AtMost(TokensForData(tx.op, data), tx.op.tokens[Owner])
             able == Require(tx, ValueOf(tx.op) > 0)
             x == able.op.tokens[Owner] - burned
             after == [able EXCEPT !.op.tokens[Owner] = x]
  <2>1. t = BalanceUpdate(after, Owner)
    BY <1>4 DEF SlashSelfDelegation
  <2>2. /\ IsTx(able) /\ able.op = tx.op
        /\ able.ok => tx.ok
        /\ ValueOf(tx.op) > 0 => able = tx
    BY <1>2 DEF Require, IsTx
  <2>3. IsTx(after) /\ after.ok = able.ok /\ after.op = [able.op EXCEPT !.tokens[Owner] = x]
    <3> HIDE DEF able, x
    <3> QED
      BY <2>2 DEF IsTx
  <2>4. ASSUME tx.ok
        PROVE  after.op \in Holdings /\ SameStakes(tx.op, after.op)
               /\ after.op.balance = tx.op.balance
    <3>1. tx.op \in Holdings /\ ValueOf(tx.op) >= 0 /\ Owner \in Holders
      BY <2>4, OperatorAssumption DEF Sound
    <3>2. TokensForData(tx.op, data) \in Nat
      BY <3>1, ConversionsAreNat
    <3>3. tx.op.tokens[Owner] \in Nat
      BY <3>1 DEF Holdings
    <3>4. burned \in Nat /\ burned <= tx.op.tokens[Owner]
      BY <3>2, <3>3, AtMostIs
    <3> HIDE DEF burned
    <3>5. x \in Nat
      BY <2>2, <3>3, <3>4
    <3> HIDE DEF x, able, after
    <3>6. after.op = [tx.op EXCEPT !.tokens[Owner] = x]
      BY <2>2, <2>3
    <3> QED
      BY <3>1, <3>5, <3>6, NewTokens
  <2> HIDE DEF after, able
  <2>5. IsTx(t) /\ t.op = after.op /\ t.ok = after.ok
    BY <2>1, <2>3, ReportsKeep
  <2> HIDE DEF t
  <2> QED
    BY <2>2, <2>3, <2>4, <2>5 DEF t
<1> QED
  BY <1>3, <1>4

-----------------------------------------------------------------------------
(* The undelegation queue *)

\* The first entry is taken off.
LEMMA PopQueueIs ==
    ASSUME NEW tx, Sound(tx), tx.ok => tx.op.queue # <<>>
    PROVE  LET t == PopQueue(tx)
           IN  /\ IsTx(t) /\ t.ok = tx.ok
               /\ t.ok => /\ t.op \in Holdings /\ SameStakes(tx.op, t.op)
                          /\ t.op.balance = tx.op.balance /\ t.op.tokens = tx.op.tokens
<1> DEFINE rest == Tail(tx.op.queue)
           popped == [tx EXCEPT !.op.queue = rest]
<1>1. PopQueue(tx) = QueueUpdated(popped, QueueIndex(tx.op), 0)
  BY DEF PopQueue
<1>2. tx.ok => rest \in Seq(Entries)
  BY DEF Sound, Holdings
<1> HIDE DEF rest
<1>3. IsTx(popped) /\ popped.ok = tx.ok /\ popped.op = [tx.op EXCEPT !.queue = rest]
  BY DEF IsTx, Sound
<1> HIDE DEF popped
<1>4. tx.ok => /\ popped.op \in Holdings /\ SameStakes(tx.op, popped.op)
               /\ popped.op.balance = tx.op.balance /\ popped.op.tokens = tx.op.tokens
  BY <1>2, <1>3, NewQueue DEF Sound
<1> DEFINE t == PopQueue(tx)
<1>5. IsTx(t) /\ t.op = popped.op /\ t.ok = popped.ok
  BY <1>1, <1>3, QueueReportKeeps
<1> HIDE DEF t
<1>6. t.ok = tx.ok
  BY <1>3, <1>5
<1>7. t.ok => /\ t.op \in Holdings /\ SameStakes(tx.op, t.op)
              /\ t.op.balance = tx.op.balance /\ t.op.tokens = tx.op.tokens
  BY <1>4, <1>5, <1>6
<1> QED
  BY <1>5, <1>6, <1>7 DEF t

\* The tokens are burned and the DATA is sent.
LEMMA PaidToIs ==
    ASSUME NEW tx, Sound(tx), NEW h \in Holders, NEW tokens \in Nat, NEW data \in Nat,
           tx.ok => data <= tx.op.balance
    PROVE  LET t == PaidTo(tx, h, tokens, data)
           IN  /\ IsTx(t)
               /\ t.ok => tx.ok /\ t.op \in Holdings /\ SameStakes(tx.op, t.op)
               /\ (tx.ok /\ tokens <= tx.op.tokens[h]) => t.ok
<1> DEFINE enough == tokens <= tx.op.tokens[h]
           able == Require(tx, enough)
           x == able.op.tokens[h] - tokens
           y == able.op.balance - data
           without == [able EXCEPT !.op.tokens[h] = x]
           burned == [without EXCEPT !.op.balance = y]
           event == [name |-> "Undelegated", delegator |-> h, amountDataWei |-> data]
           t == PaidTo(tx, h, tokens, data)
<1>1. t = OperatorValueUpdate(BalanceUpdate(Log(burned, event), h))
  BY DEF PaidTo
<1>2. /\ IsTx(able) /\ able.op = tx.op /\ (able.ok => tx.ok /\ enough)
      /\ enough => able = tx
  BY DEF Require, IsTx, Sound
<1> HIDE DEF able
<1>3. IsTx(without) /\ without.ok = able.ok /\ without.op = [able.op EXCEPT !.tokens[h] = x]
  <2> HIDE DEF x
  <2> QED
    BY <1>2 DEF IsTx
<1>4. IsTx(burned) /\ burned.ok = able.ok /\ burned.op = [without.op EXCEPT !.balance = y]
  <2> HIDE DEF y, without
  <2> QED
    BY <1>3 DEF IsTx
<1>5. ASSUME able.ok
      PROVE  burned.op \in Holdings /\ SameStakes(tx.op, burned.op)
  <2>1. tx.op \in Holdings /\ data <= tx.op.balance /\ tokens <= tx.op.tokens[h]
    BY <1>2, <1>5 DEF Sound
  <2>2. tx.op.balance \in Nat /\ tx.op.tokens[h] \in Nat
    BY <2>1 DEF Holdings
  <2>3. x \in Nat /\ y \in Nat
    BY <1>2, <2>1, <2>2
  <2> HIDE DEF x, y, burned, without
  <2>4. without.op \in Holdings /\ SameStakes(tx.op, without.op)
    <3>1. able.op \in Holdings
      BY <1>2, <2>1
    <3> QED
      BY <1>2, <1>3, <2>3, <3>1, NewTokens
  <2>5. burned.op \in Holdings /\ SameStakes(without.op, burned.op)
    BY <1>4, <2>3, <2>4, NewBalance
  <2> QED
    BY <2>4, <2>5 DEF SameStakes
<1> HIDE DEF burned
<1>6. IsTx(t) /\ t.op = burned.op /\ t.ok = burned.ok
  <2> HIDE DEF event, t
  <2> QED
    BY <1>1, <1>4, LogKeeps, ReportsKeep
<1> HIDE DEF t
<1>7. t.ok => tx.ok /\ t.op \in Holdings /\ SameStakes(tx.op, t.op)
  BY <1>2, <1>4, <1>5, <1>6
<1>8. (tx.ok /\ enough) => t.ok
  BY <1>2, <1>4, <1>6
<1> QED
  BY <1>6, <1>7, <1>8 DEF t

\* What is due for the first entry can be computed.
LEMMA DueIsNat ==
    ASSUME NEW a \in Holdings, ValueOf(a) >= 0, a.queue # <<>>
    PROVE  /\ Head(a.queue) \in Entries
           /\ Due(a).tokens \in Nat /\ Due(a).data \in Nat
<1> DEFINE entry == Head(a.queue)
           asked == AtMost(entry.amount, ValueOf(a))
           held == a.tokens[entry.delegator]
<1>1. entry \in Entries
  BY DEF Holdings
<1>2. entry.amount \in Nat /\ entry.delegator \in Holders
  BY <1>1 DEF Entries
<1> HIDE DEF entry
<1>3. ValueOf(a) \in Nat
  BY ConversionsAreNat
<1>4. asked \in Nat
  BY <1>2, <1>3 DEF AtMost
<1>5. held \in Nat
  BY <1>2 DEF Holdings
<1> HIDE DEF asked, held
<1>6. TokensForData(a, asked) \in Nat /\ TokensToData(a, held) \in Nat
  BY <1>4, <1>5, ConversionsAreNat
<1>7. \/ Due(a) = [tokens |-> held, data |-> TokensToData(a, held)]
      \/ Due(a) = [tokens |-> TokensForData(a, asked), data |-> asked]
  BY DEF Due, entry, asked, held
<1> QED
  BY <1>1, <1>4, <1>5, <1>6, <1>7 DEF entry

\* _payOutFirstInQueue
LEMMA PaidFirstIs ==
    ASSUME NEW tx, IsTx(tx), tx.ok, tx.op \in Holdings, tx.op.queue # <<>>,
           tx.op.totalSlashed <= tx.op.totalStaked
    PROVE  LET t == PaidFirstInQueue(tx)
           IN  IsTx(t) /\ (t.ok => t.op \in Holdings /\ SameStakes(tx.op, t.op))
<1> DEFINE entry == Head(tx.op.queue)
           due == Due(tx.op)
           all == tx.op.balance
           left == entry.amount - all
           able == Require(tx, left >= 0)
           changed == [able EXCEPT !.op.queue[1].amount = left]
           partly == QueueUpdated(changed, QueueIndex(tx.op), left)
           tokens == TokensForData(tx.op, all)
           t == PaidFirstInQueue(tx)
<1>1. ValueOf(tx.op) >= 0 /\ all \in Nat /\ tx.op.queue \in Seq(Entries)
  BY DEF Holdings, ValueOf
<1>2. entry \in Entries /\ due.tokens \in Nat /\ due.data \in Nat /\ tokens \in Nat
  BY <1>1, DueIsNat, ConversionsAreNat
<1>3. entry.amount \in Nat /\ entry.delegator \in Holders
      /\ entry = [delegator |-> entry.delegator, amount |-> entry.amount]
  BY <1>2 DEF Entries
<1>4. CASE due.data = 0 \/ due.tokens = 0
  <2>1. t = PopQueue(tx)
    BY <1>4 DEF PaidFirstInQueue
  <2> QED
    BY <2>1, PopQueueIs DEF Sound
<1>5. CASE ~(due.data = 0 \/ due.tokens = 0) /\ all >= due.data
  <2> DEFINE popped == PopQueue(tx)
  <2>1. t = PaidTo(popped, entry.delegator, due.tokens, due.data)
    BY <1>5 DEF PaidFirstInQueue
  <2>2. /\ IsTx(popped) /\ popped.ok /\ popped.op \in Holdings
        /\ SameStakes(tx.op, popped.op) /\ popped.op.balance = all
    BY PopQueueIs DEF Sound
  <2> HIDE DEF popped, due, entry, all
  <2>3. Sound(popped) /\ due.data <= popped.op.balance
    BY <1>1, <1>2, <1>5, <2>2 DEF Sound
  <2>4. IsTx(t) /\ (t.ok => t.op \in Holdings /\ SameStakes(popped.op, t.op))
    BY <1>2, <1>3, <2>1, <2>3, PaidToIs
  <2> HIDE DEF t
  <2>5. IsTx(t) /\ (t.ok => t.op \in Holdings /\ SameStakes(tx.op, t.op))
    BY <2>2, <2>4 DEF SameStakes
  <2> QED
    BY <2>5 DEF t
<1>6. CASE ~(due.data = 0 \/ due.tokens = 0) /\ ~(all >= due.data)
  <2>1. t = PaidTo(partly, entry.delegator, tokens, all)
    BY <1>6 DEF PaidFirstInQueue
  <2>2. IsTx(able) /\ able.op = tx.op /\ (able.ok => left >= 0)
    BY DEF Require, IsTx
  <2> HIDE DEF able, due, tokens
  <2> DEFINE queue == [tx.op.queue EXCEPT ![1] = [tx.op.queue[1] EXCEPT !.amount = left]]
  <2>3. IsTx(changed) /\ changed.ok = able.ok /\ changed.op = [tx.op EXCEPT !.queue = queue]
    <3> HIDE DEF left
    <3> QED
      BY <2>2 DEF IsTx
  <2> HIDE DEF changed
  <2>4. ASSUME able.ok
        PROVE  changed.op \in Holdings /\ SameStakes(tx.op, changed.op) /\ changed.op.balance = all
    <3>1. left \in Nat
      <4> HIDE DEF entry, all
      <4> QED
        BY <1>1, <1>3, <2>2, <2>4
    <3>2. entry = tx.op.queue[1]
      BY <1>1
    <3> HIDE DEF left, entry
    <3>3. [tx.op.queue[1] EXCEPT !.amount = left] = [delegator |-> entry.delegator, amount |-> left]
      BY <1>3, <3>2
    <3>4. [tx.op.queue[1] EXCEPT !.amount = left] \in Entries
      BY <1>3, <3>1, <3>3 DEF Entries
    <3> DEFINE first == [tx.op.queue[1] EXCEPT !.amount = left]
    <3> HIDE DEF first
    <3>5. queue \in Seq(Entries)
      <4>1. Len(tx.op.queue) \in Nat /\ 1 \in 1 .. Len(tx.op.queue)
        BY <1>1
      <4>2. first \in Entries
        BY <3>4 DEF first
      <4>3. [tx.op.queue EXCEPT ![1] = first] \in Seq(Entries)
        BY <1>1, <4>1, <4>2, ExceptSeq
      <4> QED
        BY <4>3 DEF first
    <3> HIDE DEF queue
    <3> QED
      BY <2>3, <3>5, NewQueue
  <2> HIDE DEF left
  <2>5. IsTx(partly) /\ partly.op = changed.op /\ partly.ok = able.ok
    BY <2>3, QueueReportKeeps
  <2> HIDE DEF partly
  <2>6. Sound(partly) /\ (partly.ok => all <= partly.op.balance)
    BY <1>1, <2>4, <2>5 DEF Sound
  <2> HIDE DEF all, entry
  <2>7. IsTx(t) /\ (t.ok => partly.ok /\ t.op \in Holdings /\ SameStakes(partly.op, t.op))
    BY <1>1, <1>2, <1>3, <2>1, <2>6, PaidToIs
  <2> HIDE DEF t
  <2>8. IsTx(t) /\ (t.ok => t.op \in Holdings /\ SameStakes(tx.op, t.op))
    BY <2>4, <2>5, <2>7 DEF SameStakes
  <2> QED
    BY <2>8 DEF t
<1> QED
  BY <1>4, <1>5, <1>6

\* A step of payOutQueue: the next entry, if there is one and there is DATA.
Paid(t) == IF t.ok /\ t.op.balance > 0 /\ t.op.queue # <<>> THEN PaidFirstInQueue(t) ELSE t

\* What holds after any number of steps that began with tx
PaidFrom(tx, t) == Sound(t) /\ (t.ok => tx.ok /\ SameStakes(tx.op, t.op))

LEMMA PaidKeeps ==
    ASSUME NEW tx, tx.ok => tx.op.totalSlashed <= tx.op.totalStaked, NEW t, PaidFrom(tx, t)
    PROVE  PaidFrom(tx, Paid(t))
<1>1. CASE ~(t.ok /\ t.op.balance > 0 /\ t.op.queue # <<>>)
  BY <1>1 DEF Paid
<1>2. CASE t.ok /\ t.op.balance > 0 /\ t.op.queue # <<>>
  <2> DEFINE after == PaidFirstInQueue(t)
  <2>1. Paid(t) = after
    BY <1>2 DEF Paid
  <2>2. /\ IsTx(t) /\ t.op \in Holdings /\ t.op.queue # <<>>
        /\ tx.ok /\ SameStakes(tx.op, t.op) /\ t.ok
    BY <1>2 DEF PaidFrom, Sound
  <2>3. t.op.totalSlashed <= t.op.totalStaked
    BY <2>2 DEF SameStakes
  <2>4. IsTx(after) /\ (after.ok => after.op \in Holdings /\ SameStakes(t.op, after.op))
    BY <2>2, <2>3, PaidFirstIs
  <2> HIDE DEF after
  <2>5. after.ok => SameStakes(tx.op, after.op)
    BY <2>2, <2>4 DEF SameStakes
  <2>6. PaidFrom(tx, after)
    BY <2>2, <2>4, <2>5 DEF PaidFrom, Sound
  <2> QED
    BY <2>1, <2>6
<1> QED
  BY <1>1, <1>2

\* As many steps as payOutQueue makes
Rounds(a, maxIterations) ==
    IF maxIterations = 0 THEN Len(a.queue) ELSE AtMost(maxIterations, Len(a.queue))

\* The transaction after the first k of n steps is iter[1 .. k].
IsRunOf(tx, n, iter) ==
    iter[{}] = tx /\ \A k \in 1 .. n : iter[1 .. k] = Paid(iter[1 .. k - 1])

\* payOutQueue makes one step after the other.
LEMMA QueueTurns ==
    ASSUME NEW tx, Sound(tx), tx.ok, NEW maxIterations \in Nat
    PROVE  LET n == Rounds(tx.op, maxIterations)
           IN  /\ n \in Nat
               /\ \E iter : /\ IsRunOf(tx, n, iter)
                           /\ PaidOutQueue(tx, maxIterations) = iter[1 .. n]
<1> DEFINE length == Len(tx.op.queue)
           n == Rounds(tx.op, maxIterations)
           turns == [i \in 1 .. n |-> i]
           Step(h, s) == IF s = {} THEN tx ELSE Paid(h[s \ {Max(s)}])
           RunTo(h, k) == [s \in SUBSET (1 .. k) |-> Step(h, s)]
           iter == CHOOSE h : h = RunTo(h, n)
<1>1. n \in Nat /\ DOMAIN turns = 1 .. n
  <2>1. tx.op.queue \in Seq(Entries)
    BY DEF Sound, Holdings
  <2>2. length \in Nat
    BY <2>1
  <2> HIDE DEF length
  <2>3. n \in Nat
    BY <2>2 DEF AtMost, Rounds
  <2> HIDE DEF n
  <2> QED
    BY <2>3
<1>2. PaidOutQueue(tx, maxIterations) = iter[1 .. n]
  BY <1>1 DEF PaidOutQueue, Rounds, FoldLeft, MapThenFoldSet, Paid
<1> HIDE DEF n, turns
<1>3. \E h : h = RunTo(h, n)
  <2> DEFINE T == {k \in 1 .. n + 1 : \E h : h = RunTo(h, k - 1)}
  <2>1. 1 \in T
    <3> DEFINE g == [s \in SUBSET (1 .. 1 - 1) |-> tx]
    <3>1. \A s \in SUBSET (1 .. 1 - 1) : s = {}
      OBVIOUS
    <3>2. g = RunTo(g, 1 - 1)
      BY <3>1
    <3>3. 1 \in 1 .. n + 1
      BY <1>1
    <3> HIDE DEF RunTo
    <3> QED
      BY <3>2, <3>3
  <2>2. ASSUME NEW k \in 1 .. n + 1, k < n + 1, k \in T
        PROVE  k + 1 \in T
    <3>1. PICK g : g = RunTo(g, k - 1)
      <4> HIDE DEF RunTo
      <4> QED
        BY <2>2
    <3> DEFINE h == [s \in SUBSET (1 .. k) |-> IF k \in s THEN Paid(g[s \ {k}]) ELSE g[s]]
    <3>2. \A s \in SUBSET (1 .. k - 1) : g[s] = Step(g, s)
      <4> HIDE DEF Step
      <4> QED
        BY <3>1
    <3>3. ASSUME NEW s \in SUBSET (1 .. k)
          PROVE  h[s] = Step(h, s)
      <4>1. CASE k \in s
        <5>1. Max(s) = k
          <6>1. s \in SUBSET Int /\ \A x \in s : x <= k
            OBVIOUS
          <6> QED
            BY <6>1, <4>1, MaxIs
        <5>2. h[s \ {k}] = g[s \ {k}]
          OBVIOUS
        <5> QED
          BY <4>1, <5>1, <5>2
      <4>2. CASE k \notin s
        <5>1. s \in SUBSET (1 .. k - 1)
          BY <4>2
        <5>2. h[s] = g[s] /\ h[s \ {Max(s)}] = g[s \ {Max(s)}]
          BY <4>2
        <5> HIDE DEF h
        <5> QED
          BY <3>2, <5>1, <5>2
      <4> QED
        BY <4>1, <4>2
    <3> HIDE DEF Step
    <3>4. h = RunTo(h, k)
      BY <3>3
    <3>5. (k + 1) - 1 = k /\ k + 1 \in 1 .. n + 1
      BY <2>2, <1>1
    <3> HIDE DEF RunTo
    <3> QED
      BY <3>4, <3>5
  <2> HIDE DEF RunTo
  <2>3. n + 1 \in T
    <3> HIDE DEF T
    <3>1. n + 1 \in Nat /\ n + 1 \in 1 .. n + 1
      BY <1>1
    <3>2. 1 .. n + 1 \subseteq T
      BY <1>1, <2>1, <2>2, <3>1, IntervalInduction
    <3> QED
      BY <3>1, <3>2
  <2>4. (n + 1) - 1 = n
    BY <1>1
  <2> QED
    BY <2>3, <2>4
<1>4. iter = RunTo(iter, n)
  <2> HIDE DEF RunTo
  <2> QED
    BY <1>3
<1> HIDE DEF iter
<1>5. \A s \in SUBSET (1 .. n) : iter[s] = Step(iter, s)
  <2> HIDE DEF Step
  <2> QED
    BY <1>4
<1>6. iter[{}] = tx
  BY <1>5
<1>7. ASSUME NEW k \in 1 .. n
      PROVE  iter[1 .. k] = Paid(iter[1 .. k - 1])
  <2>1. Max(1 .. k) = k /\ (1 .. k) \ {k} = 1 .. k - 1 /\ 1 .. k # {}
    <3>1. k \in Nat /\ k > 0
      BY <1>1
    <3> QED
      BY <3>1, LastOfInterval
  <2>2. 1 .. k \in SUBSET (1 .. n)
    BY <1>1
  <2> QED
    BY <1>5, <2>1, <2>2
<1> HIDE DEF Step, RunTo
<1> QED
  BY <1>1, <1>2, <1>6, <1>7 DEF n, IsRunOf

\* payOutQueue, however many entries there are
LEMMA PaidOutQueueIs ==
    ASSUME NEW tx, Sound(tx), NEW maxIterations \in Nat,
           tx.ok => tx.op.totalSlashed <= tx.op.totalStaked
    PROVE  PaidFrom(tx, PaidOutQueue(tx, maxIterations))
<1>1. PaidFrom(tx, tx)
  BY DEF PaidFrom, SameStakes
<1>2. CASE ~tx.ok
  BY <1>1, <1>2 DEF PaidOutQueue
<1>3. CASE tx.ok
  <2> DEFINE n == Rounds(tx.op, maxIterations)
  <2>1. n \in Nat
    BY <1>3, QueueTurns
  <2>2. PICK iter : IsRunOf(tx, n, iter) /\ PaidOutQueue(tx, maxIterations) = iter[1 .. n]
    BY <1>3, QueueTurns
  <2> HIDE DEF n
  <2>3. ASSUME NEW k \in 1 .. n, PaidFrom(tx, iter[1 .. k - 1])
        PROVE  PaidFrom(tx, iter[1 .. k])
    <3> DEFINE before == iter[1 .. k - 1]
    <3>1. PaidFrom(tx, before) /\ iter[1 .. k] = Paid(before)
      BY <2>2, <2>3 DEF IsRunOf
    <3> HIDE DEF before
    <3> QED
      BY <3>1, PaidKeeps
  <2>4. CASE n = 0
    <3>1. 1 .. 0 = {}
      OBVIOUS
    <3> QED
      BY <1>1, <2>2, <2>4, <3>1 DEF IsRunOf
  <2>5. CASE n > 0
    <3> DEFINE T == {k \in 1 .. n : PaidFrom(tx, iter[1 .. k])}
    <3>1. 1 \in T
      <4>1. 1 .. 1 - 1 = {} /\ 1 \in 1 .. n
        BY <2>1, <2>5
      <4> QED
        BY <1>1, <2>2, <2>3, <4>1 DEF IsRunOf
    <3>2. ASSUME NEW i \in 1 .. n, i < n, i \in T
          PROVE  i + 1 \in T
      <4>1. i + 1 \in 1 .. n /\ (i + 1) - 1 = i
        BY <2>1, <3>2
      <4> QED
        BY <2>3, <3>2, <4>1
    <3> HIDE DEF T
    <3>3. 1 .. n \subseteq T
      BY <2>1, <3>1, <3>2, IntervalInduction
    <3>4. n \in T
      BY <2>1, <2>5, <3>3
    <3> QED
      BY <2>2, <3>4 DEF T
  <2> QED
    BY <2>1, <2>4, <2>5
<1> QED
  BY <1>2, <1>3

-----------------------------------------------------------------------------
(* Stakes *)

\* Nothing is slashed that was not staked, the totals are the sums, and the
\* Sponsorships joined are those with a stake that is not zero.
StakesSound(a) ==
    /\ \A s \in Sponsorships :
         /\ 0 <= a.slashedIn[s] /\ a.slashedIn[s] <= a.stakedInto[s]
         /\ s \in a.sponsorships <=> a.stakedInto[s] > 0
    /\ a.totalStaked = SumFunction(a.stakedInto)
    /\ a.totalSlashed = SumFunction(a.slashedIn)

LEMMA SameStakesAreSound ==
    ASSUME NEW a, NEW b, StakesSound(a), SameStakes(a, b)
    PROVE  StakesSound(b)
  BY DEF StakesSound, SameStakes

\* What is left of one stake is a part of the value of all.
LEMMA StakeIsPart ==
    ASSUME NEW a \in Holdings, StakesSound(a)
    PROVE  /\ a.totalSlashed <= a.totalStaked
           /\ ValueOf(a) \in Nat /\ ValueOf(a) >= a.balance
           /\ \A s \in Sponsorships :
                /\ a.stakedInto[s] - a.slashedIn[s] <= a.totalStaked - a.totalSlashed
                /\ ValueOf(a) >= a.balance + a.stakedInto[s] - a.slashedIn[s]
<1> DEFINE f == a.stakedInto
           g == a.slashedIn
           rest == [s \in Sponsorships |-> f[s] - g[s]]
<1>1. /\ f \in [Sponsorships -> Int] /\ g \in [Sponsorships -> Int] /\ IsFiniteSet(Sponsorships)
      /\ DOMAIN f = Sponsorships /\ DOMAIN g = Sponsorships
      /\ a.balance \in Nat /\ a.totalStaked \in Int /\ a.totalSlashed \in Int
  BY OperatorAssumption DEF Holdings
<1>2. \A s \in Sponsorships : 0 <= g[s] /\ g[s] <= f[s]
  BY DEF StakesSound
<1>3. a.totalStaked = SumFunctionOnSet(f, Sponsorships)
      /\ a.totalSlashed = SumFunctionOnSet(g, Sponsorships)
  BY <1>1, SumOverDomain DEF StakesSound
<1> HIDE DEF f, g
<1>4. \A s \in Sponsorships : rest[s] \in Nat /\ f[s] = g[s] + rest[s] /\ g[s] \in Int /\ rest[s] \in Int
  BY <1>1, <1>2
<1> HIDE DEF rest
<1>5. SumFunctionOnSet(f, Sponsorships)
        = SumFunctionOnSet(g, Sponsorships) + SumFunctionOnSet(rest, Sponsorships)
  BY <1>1, <1>4, SumOfSums
<1>6. /\ SumFunctionOnSet(rest, Sponsorships) \in Nat
      /\ \A s \in Sponsorships : rest[s] <= SumFunctionOnSet(rest, Sponsorships)
  BY <1>1, <1>4, SumOfNaturals
<1> DEFINE total == SumFunctionOnSet(rest, Sponsorships)
<1> HIDE DEF total
<1>7. total \in Nat /\ a.totalStaked = a.totalSlashed + total
      /\ \A s \in Sponsorships : f[s] - g[s] <= total
  <2>1. \A s \in Sponsorships : f[s] - g[s] = rest[s]
    BY <1>1, <1>4
  <2> QED
    BY <1>3, <1>5, <1>6, <2>1 DEF total
<1> QED
  <2>1. \A s \in Sponsorships : f[s] \in Int /\ g[s] \in Int
    BY <1>1
  <2> QED
    BY <1>1, <1>7, <2>1 DEF ValueOf, f, g

\* A change of one stake, with the totals changed as much
LEMMA OneStakeChanges ==
    ASSUME NEW a \in Holdings, StakesSound(a), NEW b \in Holdings, NEW s \in Sponsorships,
           NEW x \in Nat, NEW y \in Nat, y <= x,
           b.stakedInto = [a.stakedInto EXCEPT ![s] = x],
           b.slashedIn = [a.slashedIn EXCEPT ![s] = y],
           b.totalStaked = a.totalStaked - a.stakedInto[s] + x,
           b.totalSlashed = a.totalSlashed - a.slashedIn[s] + y,
           \A r \in Sponsorships \ {s} : r \in b.sponsorships <=> r \in a.sponsorships,
           s \in b.sponsorships <=> x > 0
    PROVE  StakesSound(b)
<1> DEFINE f == a.stakedInto
           g == a.slashedIn
           f2 == b.stakedInto
           g2 == b.slashedIn
<1>1. /\ f \in [Sponsorships -> Int] /\ g \in [Sponsorships -> Int]
      /\ f2 \in [Sponsorships -> Int] /\ g2 \in [Sponsorships -> Int]
      /\ IsFiniteSet(Sponsorships)
      /\ DOMAIN f = Sponsorships /\ DOMAIN g = Sponsorships
      /\ DOMAIN f2 = Sponsorships /\ DOMAIN g2 = Sponsorships
  BY OperatorAssumption DEF Holdings
<1>2. /\ f2[s] = x /\ g2[s] = y
      /\ \A r \in Sponsorships \ {s} : f2[r] = f[r] /\ g2[r] = g[r]
  BY <1>1
<1>3. a.totalStaked = SumFunctionOnSet(f, Sponsorships)
      /\ a.totalSlashed = SumFunctionOnSet(g, Sponsorships)
  BY <1>1, SumOverDomain DEF StakesSound
<1>4. SumFunction(f2) = SumFunctionOnSet(f2, Sponsorships)
      /\ SumFunction(g2) = SumFunctionOnSet(g2, Sponsorships)
  BY <1>1, SumOverDomain
<1>5. \A r \in Sponsorships : 0 <= g[r] /\ g[r] <= f[r] /\ (r \in a.sponsorships <=> f[r] > 0)
  BY DEF StakesSound
<1> HIDE DEF f, g, f2, g2
<1>6. SumFunctionOnSet(f2, Sponsorships) = SumFunctionOnSet(f, Sponsorships) - f[s] + x
  <2>1. \A r \in Sponsorships : f[r] \in Int /\ f2[r] \in Int
    BY <1>1
  <2> QED
    BY <1>1, <1>2, <2>1, SumChangesAtOne
<1>7. SumFunctionOnSet(g2, Sponsorships) = SumFunctionOnSet(g, Sponsorships) - g[s] + y
  <2>1. \A r \in Sponsorships : g[r] \in Int /\ g2[r] \in Int
    BY <1>1
  <2> QED
    BY <1>1, <1>2, <2>1, SumChangesAtOne
<1>8. b.totalStaked = SumFunction(f2) /\ b.totalSlashed = SumFunction(g2)
  BY <1>3, <1>4, <1>6, <1>7 DEF f, g
<1>9. ASSUME NEW r \in Sponsorships
      PROVE  0 <= g2[r] /\ g2[r] <= f2[r] /\ (r \in b.sponsorships <=> f2[r] > 0)
  <2>1. CASE r = s
    BY <2>1, <1>2
  <2>2. CASE r # s
    BY <2>2, <1>2, <1>5
  <2> QED
    BY <2>1, <2>2
<1> QED
  BY <1>8, <1>9 DEF StakesSound, f2, g2

LEMMA NewStakedInto ==
    ASSUME NEW a \in Holdings, NEW s \in Sponsorships, NEW x \in Int
    PROVE  LET b == [a EXCEPT !.stakedInto[s] = x]
           IN  /\ b \in Holdings /\ b.balance = a.balance /\ b.cut = a.cut /\ b.tokens = a.tokens
               /\ b.stakedInto = [a.stakedInto EXCEPT ![s] = x] /\ b.slashedIn = a.slashedIn
               /\ b.totalStaked = a.totalStaked /\ b.totalSlashed = a.totalSlashed
               /\ b.sponsorships = a.sponsorships
  BY DEF Holdings

LEMMA NewSlashedIn ==
    ASSUME NEW a \in Holdings, NEW s \in Sponsorships, NEW x \in Int
    PROVE  LET b == [a EXCEPT !.slashedIn[s] = x]
           IN  /\ b \in Holdings /\ b.balance = a.balance /\ b.cut = a.cut /\ b.tokens = a.tokens
               /\ b.stakedInto = a.stakedInto /\ b.slashedIn = [a.slashedIn EXCEPT ![s] = x]
               /\ b.totalStaked = a.totalStaked /\ b.totalSlashed = a.totalSlashed
               /\ b.sponsorships = a.sponsorships
  BY DEF Holdings

LEMMA NewTotalStaked ==
    ASSUME NEW a \in Holdings, NEW x \in Int
    PROVE  LET b == [a EXCEPT !.totalStaked = x]
           IN  /\ b \in Holdings /\ b.balance = a.balance /\ b.cut = a.cut /\ b.tokens = a.tokens
               /\ b.stakedInto = a.stakedInto /\ b.slashedIn = a.slashedIn
               /\ b.totalStaked = x /\ b.totalSlashed = a.totalSlashed
               /\ b.sponsorships = a.sponsorships
  BY DEF Holdings

LEMMA NewTotalSlashed ==
    ASSUME NEW a \in Holdings, NEW x \in Int
    PROVE  LET b == [a EXCEPT !.totalSlashed = x]
           IN  /\ b \in Holdings /\ b.balance = a.balance /\ b.cut = a.cut /\ b.tokens = a.tokens
               /\ b.stakedInto = a.stakedInto /\ b.slashedIn = a.slashedIn
               /\ b.totalStaked = a.totalStaked /\ b.totalSlashed = x
               /\ b.sponsorships = a.sponsorships
  BY DEF Holdings

LEMMA NewSponsorships ==
    ASSUME NEW a \in Holdings, NEW x \in SUBSET Sponsorships
    PROVE  LET b == [a EXCEPT !.sponsorships = x]
           IN  /\ b \in Holdings /\ b.balance = a.balance /\ b.cut = a.cut /\ b.tokens = a.tokens
               /\ b.stakedInto = a.stakedInto /\ b.slashedIn = a.slashedIn
               /\ b.totalStaked = a.totalStaked /\ b.totalSlashed = a.totalSlashed
               /\ b.sponsorships = x
  BY DEF Holdings

\* voterUpdate
LEMMA VoterUpdatedIs ==
    ASSUME NEW tx, Sound(tx)
    PROVE  LET t == VoterUpdated(tx)
           IN  /\ Sound(t) /\ t.ok = tx.ok
               /\ tx.ok => SameStakes(tx.op, t.op) /\ t.op.balance = tx.op.balance
                        /\ t.op.tokens = tx.op.tokens
<1> DEFINE eligible == tx.op.totalStaked >= VoterThreshold
           updated == [tx EXCEPT !.op.voter = eligible]
           t == VoterUpdated(tx)
<1>1. IsTx(tx)
  BY DEF Sound
<1>2. CASE t = tx
  BY <1>2 DEF SameStakes
<1>3. CASE t = Log(updated, [name |-> "VoterUpdate", isVoter |-> eligible])
  <2>1. IsTx(updated) /\ updated.ok = tx.ok /\ updated.op = [tx.op EXCEPT !.voter = eligible]
    <3> HIDE DEF eligible
    <3> QED
      BY <1>1 DEF IsTx
  <2>2. tx.ok => /\ updated.op \in Holdings /\ SameStakes(tx.op, updated.op)
                 /\ updated.op.balance = tx.op.balance
                 /\ updated.op.tokens = tx.op.tokens
    <3>1. eligible \in BOOLEAN
      OBVIOUS
    <3> HIDE DEF eligible, updated
    <3> QED
      BY <2>1, <3>1, NewVoter DEF Sound
  <2> HIDE DEF updated
  <2> DEFINE event == [name |-> "VoterUpdate", isVoter |-> eligible]
  <2>3. t = Log(updated, event)
    BY <1>3
  <2> HIDE DEF t, event
  <2>4. IsTx(t) /\ t.op = updated.op /\ t.ok = updated.ok
    BY <2>1, <2>3, LogKeeps
  <2>5. t.ok = tx.ok
    BY <2>1, <2>4
  <2>6. tx.ok => /\ t.op \in Holdings /\ SameStakes(tx.op, t.op)
                 /\ t.op.balance = tx.op.balance /\ t.op.tokens = tx.op.tokens
    BY <2>2, <2>4
  <2>7. Sound(t)
    BY <2>4, <2>5, <2>6 DEF Sound
  <2> QED
    BY <2>5, <2>6, <2>7 DEF t
<1>4. t = tx \/ t = Log(updated, [name |-> "VoterUpdate", isVoter |-> eligible])
  BY DEF VoterUpdated
<1> QED
  BY <1>2, <1>3, <1>4

\* _stake: what leaves the balance is staked.
LEMMA StakedIs ==
    ASSUME NEW tx, Sound(tx), NEW s \in Sponsorships, NEW amount \in Nat \ {0},
           tx.ok => StakesSound(tx.op)
    PROVE  LET t == Staked(tx, s, amount)
           IN  /\ IsTx(t)
               /\ t.ok => /\ tx.ok /\ t.op \in Holdings /\ StakesSound(t.op)
                          /\ t.op.sponsorships = tx.op.sponsorships \cup {s}
                          /\ t.op.stakedInto = [tx.op.stakedInto EXCEPT ![s] = @ + amount]
                          /\ t.op.slashedIn = tx.op.slashedIn
                          /\ t.op.tokens = tx.op.tokens /\ ValueOf(t.op) = ValueOf(tx.op)
<1> DEFINE p == tx.op.balance - amount
           x == tx.op.stakedInto[s] + amount
           y == tx.op.totalStaked + amount
           z == tx.op.sponsorships \cup {s}
           a1 == [tx.op EXCEPT !.balance = p]
           a2 == [a1 EXCEPT !.stakedInto[s] = x]
           a3 == [a2 EXCEPT !.totalStaked = y]
           a4 == [a3 EXCEPT !.sponsorships = z]
           t1 == [tx EXCEPT !.op.balance = p]
           t2 == [t1 EXCEPT !.op.stakedInto[s] = x]
           t3 == [t2 EXCEPT !.op.totalStaked = y]
           t4 == [t3 EXCEPT !.op.sponsorships = z]
           legal == tx.op.queue = <<>> /\ OwnerHasEnough(tx.op) /\ amount <= tx.op.balance
           able == Require(t4, legal)
           t == Staked(tx, s, amount)
<1>1. t = OperatorValueUpdate(VoterUpdated(able))
  BY DEF Staked
<1>2. IsTx(t4) /\ t4.ok = tx.ok /\ t4.op = a4
  <2>1. IsTx(t1) /\ t1.ok = tx.ok /\ t1.op = a1
    <3> HIDE DEF p
    <3> QED
      BY DEF IsTx, Sound
  <2> HIDE DEF t1, a1
  <2>2. IsTx(t2) /\ t2.ok = tx.ok /\ t2.op = a2
    <3> HIDE DEF x
    <3> QED
      BY <2>1 DEF IsTx
  <2> HIDE DEF t2, a2
  <2>3. IsTx(t3) /\ t3.ok = tx.ok /\ t3.op = a3
    <3> HIDE DEF y
    <3> QED
      BY <2>2 DEF IsTx
  <2> HIDE DEF t3, a3
  <2> HIDE DEF z
  <2> QED
    BY <2>3 DEF IsTx
<1>3. ASSUME tx.ok, legal
      PROVE  /\ a4 \in Holdings /\ StakesSound(a4)
             /\ a4.sponsorships = tx.op.sponsorships \cup {s}
             /\ a4.stakedInto = [tx.op.stakedInto EXCEPT ![s] = @ + amount]
             /\ a4.slashedIn = tx.op.slashedIn
             /\ a4.tokens = tx.op.tokens /\ ValueOf(a4) = ValueOf(tx.op)
  <2>1. tx.op \in Holdings /\ StakesSound(tx.op)
    BY <1>3 DEF Sound
  <2>2. /\ p \in Nat /\ x \in Int /\ y \in Int /\ z \in SUBSET Sponsorships
        /\ tx.op.stakedInto[s] \in Int /\ tx.op.slashedIn[s] \in Int
        /\ tx.op.totalStaked \in Int /\ tx.op.totalSlashed \in Int
        /\ tx.op.slashedIn \in [Sponsorships -> Int] /\ tx.op.balance \in Nat
    <3>1. /\ tx.op.stakedInto[s] \in Int /\ tx.op.slashedIn[s] \in Int
          /\ tx.op.totalStaked \in Int /\ tx.op.totalSlashed \in Int
          /\ tx.op.slashedIn \in [Sponsorships -> Int] /\ tx.op.balance \in Nat
          /\ tx.op.sponsorships \in SUBSET Sponsorships
      BY <2>1 DEF Holdings
    <3>2. amount <= tx.op.balance
      BY <1>3
    <3> QED
      BY <3>1, <3>2
  <2>3. 0 <= tx.op.slashedIn[s] /\ tx.op.slashedIn[s] <= tx.op.stakedInto[s]
    BY <2>1 DEF StakesSound
  <2> HIDE DEF p
  <2>4. a1 \in Holdings /\ SameStakes(tx.op, a1) /\ a1.balance = p /\ a1.tokens = tx.op.tokens
    BY <2>1, <2>2, NewBalance
  <2> HIDE DEF a1, x
  <2>5. /\ a2 \in Holdings
        /\ a2.stakedInto = [a1.stakedInto EXCEPT ![s] = x] /\ a2.slashedIn = a1.slashedIn
        /\ a2.totalStaked = a1.totalStaked /\ a2.totalSlashed = a1.totalSlashed
        /\ a2.sponsorships = a1.sponsorships
        /\ a2.balance = a1.balance /\ a2.tokens = a1.tokens
    BY <2>2, <2>4, NewStakedInto
  <2> HIDE DEF a2, y
  <2>6. /\ a3 \in Holdings /\ a3.stakedInto = a2.stakedInto /\ a3.slashedIn = a2.slashedIn
        /\ a3.totalStaked = y /\ a3.totalSlashed = a2.totalSlashed
        /\ a3.sponsorships = a2.sponsorships
        /\ a3.balance = a2.balance /\ a3.tokens = a2.tokens
    BY <2>2, <2>5, NewTotalStaked
  <2> HIDE DEF a3, z
  <2>7. /\ a4 \in Holdings /\ a4.stakedInto = a3.stakedInto /\ a4.slashedIn = a3.slashedIn
        /\ a4.totalStaked = a3.totalStaked /\ a4.totalSlashed = a3.totalSlashed
        /\ a4.sponsorships = z /\ a4.balance = a3.balance /\ a4.tokens = a3.tokens
    BY <2>2, <2>6, NewSponsorships
  <2> HIDE DEF a4
  <2>8. /\ a4.stakedInto = [tx.op.stakedInto EXCEPT ![s] = x]
        /\ a4.slashedIn = tx.op.slashedIn
        /\ a4.totalStaked = y /\ a4.totalSlashed = tx.op.totalSlashed /\ a4.sponsorships = z
        /\ a4.balance = p /\ a4.tokens = tx.op.tokens
    BY <2>4, <2>5, <2>6, <2>7 DEF SameStakes
  <2> DEFINE w == tx.op.slashedIn[s]
  <2>9. /\ x \in Nat /\ w \in Nat /\ w <= x /\ x > 0
        /\ y = tx.op.totalStaked - tx.op.stakedInto[s] + x
        /\ tx.op.totalSlashed = tx.op.totalSlashed - tx.op.slashedIn[s] + w
    BY <2>2, <2>3 DEF x, y
  <2>10. a4.slashedIn = [tx.op.slashedIn EXCEPT ![s] = w]
    BY <2>2, <2>8
  <2> HIDE DEF w
  <2>11. s \in z /\ \A r \in Sponsorships \ {s} : r \in z <=> r \in tx.op.sponsorships
    BY DEF z
  <2>12. StakesSound(a4)
    <3>1. /\ a4.totalStaked = tx.op.totalStaked - tx.op.stakedInto[s] + x
          /\ a4.totalSlashed = tx.op.totalSlashed - tx.op.slashedIn[s] + w
      BY <2>8, <2>9
    <3>2. s \in a4.sponsorships <=> x > 0
      BY <2>8, <2>9, <2>11
    <3>3. \A r \in Sponsorships \ {s} : r \in a4.sponsorships <=> r \in tx.op.sponsorships
      BY <2>8, <2>11
    <3> QED
      BY <2>1, <2>7, <2>8, <2>9, <2>10, <3>1, <3>2, <3>3, OneStakeChanges
  <2>13. ValueOf(a4) = ValueOf(tx.op)
    BY <2>2, <2>8 DEF ValueOf, p, y
  <2> QED
    BY <2>7, <2>8, <2>12, <2>13 DEF x, z
<1> HIDE DEF t4, a4
<1>4. IsTx(able) /\ able.op = t4.op /\ (able.ok => tx.ok /\ legal)
  <2> HIDE DEF legal
  <2> QED
    BY <1>2 DEF Require, IsTx
<1> HIDE DEF able, legal, t
<1>5. Sound(able)
  BY <1>2, <1>3, <1>4 DEF Sound
<1> DEFINE v == VoterUpdated(able)
<1>6. /\ Sound(v) /\ v.ok = able.ok
      /\ able.ok => /\ SameStakes(able.op, v.op)
                    /\ v.op.balance = able.op.balance /\ v.op.tokens = able.op.tokens
  BY <1>5, VoterUpdatedIs
<1>7. t = OperatorValueUpdate(v)
  BY <1>1
<1> HIDE DEF v
<1>8. IsTx(t) /\ t.op = v.op /\ t.ok = v.ok
  BY <1>6, <1>7, ReportsKeep DEF Sound
<1>9. ASSUME t.ok
      PROVE  /\ tx.ok /\ t.op \in Holdings /\ StakesSound(t.op)
             /\ t.op.sponsorships = tx.op.sponsorships \cup {s}
             /\ t.op.stakedInto = [tx.op.stakedInto EXCEPT ![s] = @ + amount]
             /\ t.op.slashedIn = tx.op.slashedIn
             /\ t.op.tokens = tx.op.tokens /\ ValueOf(t.op) = ValueOf(tx.op)
  <2>1. v.ok /\ able.ok /\ tx.ok /\ legal
    BY <1>4, <1>6, <1>8, <1>9
  <2>2. /\ SameStakes(a4, t.op) /\ t.op \in Holdings
        /\ t.op.balance = a4.balance /\ t.op.tokens = a4.tokens
    BY <1>2, <1>4, <1>6, <1>8, <2>1 DEF Sound
  <2>3. StakesSound(t.op)
    BY <1>3, <2>1, <2>2, SameStakesAreSound
  <2>4. ValueOf(t.op) = ValueOf(a4)
    BY <2>2 DEF SameStakes, ValueOf
  <2> QED
    BY <1>3, <2>1, <2>2, <2>3, <2>4 DEF SameStakes
<1> QED
  BY <1>8, <1>9 DEF t

\* _reduceStakeTo: what is paid out is not staked any more.
LEMMA StakeReducedIs ==
    ASSUME NEW tx, Sound(tx), NEW s \in Sponsorships, NEW cashout \in Nat,
           tx.ok => /\ StakesSound(tx.op)
                    /\ cashout < tx.op.stakedInto[s] - tx.op.slashedIn[s]
    PROVE  LET t == StakeReduced(tx, s, cashout)
           IN  /\ IsTx(t) /\ t.ok = tx.ok
               /\ t.ok => /\ t.op \in Holdings /\ StakesSound(t.op)
                          /\ t.op.sponsorships = tx.op.sponsorships
                          /\ t.op.stakedInto = [tx.op.stakedInto EXCEPT ![s] = @ - cashout]
                          /\ t.op.slashedIn = tx.op.slashedIn
                          /\ t.op.tokens = tx.op.tokens /\ ValueOf(t.op) = ValueOf(tx.op)
<1> DEFINE p == tx.op.balance + cashout
           x == tx.op.stakedInto[s] - cashout
           y == tx.op.totalStaked - cashout
           a1 == [tx.op EXCEPT !.balance = p]
           a2 == [a1 EXCEPT !.stakedInto[s] = x]
           a3 == [a2 EXCEPT !.totalStaked = y]
           t1 == [tx EXCEPT !.op.balance = p]
           t2 == [t1 EXCEPT !.op.stakedInto[s] = x]
           t3 == [t2 EXCEPT !.op.totalStaked = y]
           t == StakeReduced(tx, s, cashout)
<1>1. t = OperatorValueUpdate(VoterUpdated(t3))
  BY DEF StakeReduced
<1>2. IsTx(t3) /\ t3.ok = tx.ok /\ t3.op = a3
  <2>1. IsTx(t1) /\ t1.ok = tx.ok /\ t1.op = a1
    <3> HIDE DEF p
    <3> QED
      BY DEF IsTx, Sound
  <2> HIDE DEF t1, a1
  <2>2. IsTx(t2) /\ t2.ok = tx.ok /\ t2.op = a2
    <3> HIDE DEF x
    <3> QED
      BY <2>1 DEF IsTx
  <2> HIDE DEF t2, a2
  <2>3. IsTx(t3) /\ t3.ok = tx.ok /\ t3.op = a3
    <3> HIDE DEF y
    <3> QED
      BY <2>2 DEF IsTx
  <2> QED
    BY <2>3
<1>3. ASSUME tx.ok
      PROVE  /\ a3 \in Holdings /\ StakesSound(a3)
             /\ a3.sponsorships = tx.op.sponsorships
             /\ a3.stakedInto = [tx.op.stakedInto EXCEPT ![s] = @ - cashout]
             /\ a3.slashedIn = tx.op.slashedIn
             /\ a3.tokens = tx.op.tokens /\ ValueOf(a3) = ValueOf(tx.op)
  <2>1. tx.op \in Holdings /\ StakesSound(tx.op)
        /\ cashout < tx.op.stakedInto[s] - tx.op.slashedIn[s]
    BY <1>3 DEF Sound
  <2>2. /\ p \in Nat /\ x \in Int /\ y \in Int
        /\ tx.op.stakedInto[s] \in Int /\ tx.op.slashedIn[s] \in Int
        /\ tx.op.totalStaked \in Int /\ tx.op.totalSlashed \in Int
        /\ tx.op.slashedIn \in [Sponsorships -> Int] /\ tx.op.balance \in Nat
    <3>1. /\ tx.op.stakedInto[s] \in Int /\ tx.op.slashedIn[s] \in Int
          /\ tx.op.totalStaked \in Int /\ tx.op.totalSlashed \in Int
          /\ tx.op.slashedIn \in [Sponsorships -> Int] /\ tx.op.balance \in Nat
      BY <2>1 DEF Holdings
    <3> QED
      BY <3>1
  <2>3. /\ 0 <= tx.op.slashedIn[s] /\ tx.op.slashedIn[s] <= tx.op.stakedInto[s]
        /\ s \in tx.op.sponsorships <=> tx.op.stakedInto[s] > 0
    BY <2>1 DEF StakesSound
  <2> HIDE DEF p
  <2>4. a1 \in Holdings /\ SameStakes(tx.op, a1) /\ a1.balance = p /\ a1.tokens = tx.op.tokens
    BY <2>1, <2>2, NewBalance
  <2> HIDE DEF a1, x
  <2>5. /\ a2 \in Holdings
        /\ a2.stakedInto = [a1.stakedInto EXCEPT ![s] = x] /\ a2.slashedIn = a1.slashedIn
        /\ a2.totalStaked = a1.totalStaked /\ a2.totalSlashed = a1.totalSlashed
        /\ a2.sponsorships = a1.sponsorships
        /\ a2.balance = a1.balance /\ a2.tokens = a1.tokens
    BY <2>2, <2>4, NewStakedInto
  <2> HIDE DEF a2, y
  <2>6. /\ a3 \in Holdings /\ a3.stakedInto = a2.stakedInto /\ a3.slashedIn = a2.slashedIn
        /\ a3.totalStaked = y /\ a3.totalSlashed = a2.totalSlashed
        /\ a3.sponsorships = a2.sponsorships
        /\ a3.balance = a2.balance /\ a3.tokens = a2.tokens
    BY <2>2, <2>5, NewTotalStaked
  <2> HIDE DEF a3
  <2>7. /\ a3.stakedInto = [tx.op.stakedInto EXCEPT ![s] = x]
        /\ a3.slashedIn = tx.op.slashedIn /\ a3.sponsorships = tx.op.sponsorships
        /\ a3.totalStaked = y /\ a3.totalSlashed = tx.op.totalSlashed
        /\ a3.balance = p /\ a3.tokens = tx.op.tokens
    BY <2>4, <2>5, <2>6 DEF SameStakes
  <2> DEFINE w == tx.op.slashedIn[s]
  <2>8. /\ x \in Nat /\ w \in Nat /\ w <= x /\ x > 0
        /\ y = tx.op.totalStaked - tx.op.stakedInto[s] + x
        /\ tx.op.totalSlashed = tx.op.totalSlashed - tx.op.slashedIn[s] + w
        /\ tx.op.stakedInto[s] > 0
    BY <2>1, <2>2, <2>3 DEF x, y
  <2>9. a3.slashedIn = [tx.op.slashedIn EXCEPT ![s] = w]
    BY <2>2, <2>7
  <2> HIDE DEF w
  <2>10. StakesSound(a3)
    <3>1. /\ a3.totalStaked = tx.op.totalStaked - tx.op.stakedInto[s] + x
          /\ a3.totalSlashed = tx.op.totalSlashed - tx.op.slashedIn[s] + w
      BY <2>7, <2>8
    <3>2. s \in a3.sponsorships <=> x > 0
      BY <2>3, <2>7, <2>8
    <3>3. \A r \in Sponsorships \ {s} : r \in a3.sponsorships <=> r \in tx.op.sponsorships
      BY <2>7
    <3> QED
      BY <2>1, <2>6, <2>7, <2>8, <2>9, <3>1, <3>2, <3>3, OneStakeChanges
  <2>11. ValueOf(a3) = ValueOf(tx.op)
    BY <2>2, <2>7 DEF ValueOf, p, y
  <2> QED
    BY <2>6, <2>7, <2>10, <2>11 DEF x
<1> HIDE DEF t3, a3, t
<1>4. Sound(t3)
  BY <1>2, <1>3 DEF Sound
<1> DEFINE v == VoterUpdated(t3)
<1>5. /\ Sound(v) /\ v.ok = t3.ok
      /\ t3.ok => /\ SameStakes(t3.op, v.op)
                  /\ v.op.balance = t3.op.balance /\ v.op.tokens = t3.op.tokens
  BY <1>4, VoterUpdatedIs
<1>6. t = OperatorValueUpdate(v)
  BY <1>1
<1> HIDE DEF v
<1>7. IsTx(t) /\ t.op = v.op /\ t.ok = v.ok
  BY <1>5, <1>6, ReportsKeep DEF Sound
<1>8. t.ok = tx.ok
  BY <1>2, <1>5, <1>7
<1>9. ASSUME t.ok
      PROVE  /\ t.op \in Holdings /\ StakesSound(t.op)
             /\ t.op.sponsorships = tx.op.sponsorships
             /\ t.op.stakedInto = [tx.op.stakedInto EXCEPT ![s] = @ - cashout]
             /\ t.op.slashedIn = tx.op.slashedIn
             /\ t.op.tokens = tx.op.tokens /\ ValueOf(t.op) = ValueOf(tx.op)
  <2>1. v.ok /\ t3.ok /\ tx.ok
    BY <1>2, <1>5, <1>7, <1>9
  <2>2. /\ SameStakes(a3, t.op) /\ t.op \in Holdings
        /\ t.op.balance = a3.balance /\ t.op.tokens = a3.tokens
    BY <1>2, <1>5, <1>7, <2>1 DEF Sound
  <2>3. StakesSound(t.op)
    BY <1>3, <2>1, <2>2, SameStakesAreSound
  <2>4. ValueOf(t.op) = ValueOf(a3)
    BY <2>2 DEF SameStakes, ValueOf
  <2> QED
    BY <1>3, <2>1, <2>2, <2>3, <2>4 DEF SameStakes
<1> QED
  BY <1>7, <1>8, <1>9 DEF t

-----------------------------------------------------------------------------
(* Undelegating and transferring *)

LEMMA NewNextIndex ==
    ASSUME NEW a \in Holdings, NEW x \in Int
    PROVE  LET b == [a EXCEPT !.nextIndex = x]
           IN  b \in Holdings /\ b.balance = a.balance /\ SameStakes(a, b) /\ b.tokens = a.tokens
  BY DEF Holdings, SameStakes

\* _undelegate: only the queue changes.
LEMMA QueuedIs ==
    ASSUME NEW tx, Sound(tx), NEW h \in Holders, NEW data \in Nat
    PROVE  LET t == Queued(tx, h, data)
           IN  /\ IsTx(t)
               /\ t.ok => /\ tx.ok /\ t.op \in Holdings /\ SameStakes(tx.op, t.op)
                          /\ t.op.balance = tx.op.balance /\ t.op.tokens = tx.op.tokens
<1> DEFINE may == MayUndelegate(tx.op, h, data)
           able == Require(tx, may)
           entry == [delegator |-> h, amount |-> data]
           q == Append(able.op.queue, entry)
           n == able.op.nextIndex + 1
           t1 == [able EXCEPT !.op.queue = q]
           t2 == [t1 EXCEPT !.op.nextIndex = n]
           event == [name |-> "QueuedDataPayout", delegator |-> h, amountWei |-> data,
                     queueIndex |-> tx.op.nextIndex]
           t == Queued(tx, h, data)
<1>1. t = Log(t2, event)
  BY DEF Queued
<1>2. IsTx(able) /\ able.op = tx.op /\ (able.ok => tx.ok)
  <2> HIDE DEF may
  <2> QED
    BY DEF Require, IsTx, Sound
<1> HIDE DEF able, event
<1>3. IsTx(t1) /\ t1.ok = able.ok /\ t1.op = [able.op EXCEPT !.queue = q]
  <2> HIDE DEF q
  <2> QED
    BY <1>2 DEF IsTx
<1>4. IsTx(t2) /\ t2.ok = able.ok /\ t2.op = [t1.op EXCEPT !.nextIndex = n]
  <2> HIDE DEF n, t1
  <2> QED
    BY <1>3 DEF IsTx
<1>5. ASSUME able.ok
      PROVE  /\ t2.op \in Holdings /\ SameStakes(tx.op, t2.op)
             /\ t2.op.balance = tx.op.balance /\ t2.op.tokens = tx.op.tokens
  <2>1. able.op \in Holdings
    BY <1>2, <1>5 DEF Sound
  <2>2. q \in Seq(Entries) /\ n \in Int
    BY <2>1 DEF Holdings, Entries
  <2> HIDE DEF q, n, t1, t2
  <2>3. /\ t1.op \in Holdings /\ SameStakes(able.op, t1.op)
        /\ t1.op.balance = able.op.balance /\ t1.op.tokens = able.op.tokens
    BY <1>3, <2>1, <2>2, NewQueue
  <2>4. /\ t2.op \in Holdings /\ SameStakes(t1.op, t2.op)
        /\ t2.op.balance = t1.op.balance /\ t2.op.tokens = t1.op.tokens
    BY <1>4, <2>2, <2>3, NewNextIndex
  <2> QED
    BY <1>2, <2>3, <2>4 DEF SameStakes
<1> HIDE DEF t2, t
<1>6. IsTx(t) /\ t.op = t2.op /\ t.ok = t2.ok
  BY <1>1, <1>4, LogKeeps
<1>7. t.ok => /\ tx.ok /\ t.op \in Holdings /\ SameStakes(tx.op, t.op)
              /\ t.op.balance = tx.op.balance /\ t.op.tokens = tx.op.tokens
  BY <1>2, <1>4, <1>5, <1>6
<1> QED
  BY <1>6, <1>7 DEF t

\* _transfer: only the tokens change.
LEMMA TransferredIs ==
    ASSUME NEW tx, Sound(tx), NEW from \in Holders, NEW to \in Holders, NEW tokens \in Nat
    PROVE  LET t == Transferred(tx, from, to, tokens)
           IN  /\ IsTx(t)
               /\ t.ok => /\ tx.ok /\ t.op \in Holdings /\ SameStakes(tx.op, t.op)
                          /\ t.op.balance = tx.op.balance /\ Supply(t.op) = Supply(tx.op)
<1> DEFINE x == tx.op.tokens[from] - tokens
           t1 == [tx EXCEPT !.op.tokens[from] = x]
           y == tx.op.tokens[to] + tokens
           t2 == [t1 EXCEPT !.op.tokens[to] = y]
           moved == IF from = to THEN tx ELSE t2
           legal == /\ tokens <= tx.op.tokens[from]
                    /\ moved.op.tokens[from] >= MinimumDelegation \/ moved.op.tokens[from] = 0
                    /\ moved.op.tokens[to] >= MinimumDelegation
                    /\ tx.op.tokens[to] = 0 => OwnerHasEnough(moved.op)
                    /\ MayUndelegate(moved.op, from, 0)
           able == Require(moved, legal)
           t == Transferred(tx, from, to, tokens)
<1> DEFINE both == [tx EXCEPT !.op.tokens[from] = @ - tokens, !.op.tokens[to] = @ + tokens]
<1>0. from # to => both = t2
  OBVIOUS
<1>1. t = BalanceUpdate(BalanceUpdate(able, from), to)
  <2> HIDE DEF t2, both
  <2> QED
    BY <1>0 DEF Transferred, both
<1>2. IsTx(t1) /\ t1.ok = tx.ok /\ t1.op = [tx.op EXCEPT !.tokens[from] = x]
  <2> HIDE DEF x
  <2> QED
    BY DEF IsTx, Sound
<1>3. IsTx(t2) /\ t2.ok = tx.ok /\ t2.op = [t1.op EXCEPT !.tokens[to] = y]
  <2> HIDE DEF y, t1
  <2> QED
    BY <1>2 DEF IsTx
<1>4. IsTx(moved) /\ moved.ok = tx.ok
  <2> HIDE DEF t2
  <2> QED
    BY <1>3 DEF Sound
<1>5. ASSUME tx.ok, legal
      PROVE  /\ moved.op \in Holdings /\ SameStakes(tx.op, moved.op)
             /\ moved.op.balance = tx.op.balance /\ Supply(moved.op) = Supply(tx.op)
  <2>1. tx.op \in Holdings /\ tokens <= tx.op.tokens[from]
    BY <1>5 DEF Sound
  <2>2. x \in Nat
    BY <2>1 DEF Holdings
  <2> HIDE DEF x, t1, legal
  <2>3. t1.op \in Holdings /\ SameStakes(tx.op, t1.op) /\ t1.op.balance = tx.op.balance
    BY <1>2, <2>1, <2>2, NewTokens
  <2>4. y \in Nat
    BY <2>1 DEF Holdings
  <2> HIDE DEF y, t2
  <2>5. t2.op \in Holdings /\ SameStakes(t1.op, t2.op) /\ t2.op.balance = t1.op.balance
    BY <1>3, <2>3, <2>4, NewTokens
  <2>6. t2.op \in Holdings /\ SameStakes(tx.op, t2.op) /\ t2.op.balance = tx.op.balance
    BY <2>3, <2>5 DEF SameStakes
  <2>7. SameStakes(tx.op, tx.op)
    BY DEF SameStakes
  <2>8. ASSUME from # to PROVE Supply(t2.op) = Supply(tx.op)
    <3>1. /\ Supply(t1.op) = Supply(tx.op) - tx.op.tokens[from] + x
          /\ t1.op.tokens[to] = tx.op.tokens[to]
      BY <1>2, <2>1, <2>2, <2>8, NewSupply
    <3>2. Supply(t2.op) = Supply(t1.op) - t1.op.tokens[to] + y
      BY <1>3, <2>3, <2>4, NewSupply
    <3>3. tx.op.tokens[from] \in Nat /\ tx.op.tokens[to] \in Nat /\ Supply(tx.op) \in Nat
      BY <2>1, SupplyIsNat DEF Holdings
    <3> QED
      BY <3>1, <3>2, <3>3 DEF x, y
  <2> QED
    BY <2>1, <2>6, <2>7, <2>8
<1> HIDE DEF moved, t1, t2
<1>6. IsTx(able) /\ able.op = moved.op /\ (able.ok => tx.ok /\ legal)
  <2> HIDE DEF legal
  <2> QED
    BY <1>4 DEF Require, IsTx
<1> HIDE DEF able, legal, t
<1> DEFINE b == BalanceUpdate(able, from)
<1>7. IsTx(b) /\ b.op = able.op /\ b.ok = able.ok
  BY <1>6, ReportsKeep
<1>8. t = BalanceUpdate(b, to)
  BY <1>1
<1> HIDE DEF b
<1>9. IsTx(t) /\ t.op = b.op /\ t.ok = b.ok
  BY <1>7, <1>8, ReportsKeep
<1>10. t.ok => /\ tx.ok /\ t.op \in Holdings /\ SameStakes(tx.op, t.op)
               /\ t.op.balance = tx.op.balance /\ Supply(t.op) = Supply(tx.op)
  BY <1>5, <1>6, <1>7, <1>9
<1> QED
  BY <1>9, <1>10 DEF t

-----------------------------------------------------------------------------
(* Earnings, and leaving a Sponsorship *)

\* _splitEarnings: it fails only if the earnings are all there is.
LEMMA EarningsSplitIs ==
    ASSUME NEW tx, Sound(tx), NEW earnings,
           tx.ok => /\ earnings \in Nat /\ earnings <= tx.op.balance
                    /\ tx.op.totalSlashed <= tx.op.totalStaked
    PROVE  LET t == EarningsSplit(tx, earnings)
           IN  /\ IsTx(t)
               /\ t.ok => tx.ok /\ t.op \in Holdings /\ SameStakes(tx.op, t.op)
               /\ (tx.ok /\ ValueOf(tx.op) > earnings) => t.ok
<1> DEFINE fee == (earnings * FeeFraction) \div Ether
           rest == earnings - fee
           cut == (rest * tx.op.cut) \div Ether
           p == tx.op.balance - fee
           t1 == [tx EXCEPT !.op.balance = p]
           d == Delegated(t1, Owner, cut)
           event == [name |-> "Profit", valueIncreaseWei |-> earnings - fee - cut,
                     operatorsCutDataWei |-> cut]
           t == EarningsSplit(tx, earnings)
<1>1. t = Log(d, event)
  BY DEF EarningsSplit
<1>2. IsTx(t1) /\ t1.ok = tx.ok /\ t1.op = [tx.op EXCEPT !.balance = p]
  <2> HIDE DEF p
  <2> QED
    BY DEF IsTx, Sound
<1>3. ASSUME tx.ok
      PROVE  /\ t1.op \in Holdings /\ SameStakes(tx.op, t1.op)
             /\ cut \in Nat /\ cut <= ValueOf(t1.op)
             /\ ValueOf(tx.op) > earnings => ValueOf(t1.op) # cut
  <2>1. tx.op \in Holdings /\ earnings \in Nat /\ earnings <= tx.op.balance
        /\ tx.op.totalSlashed <= tx.op.totalStaked
    BY <1>3 DEF Sound
  <2>2. /\ tx.op.balance \in Nat /\ tx.op.cut \in 0 .. Ether
        /\ tx.op.totalStaked \in Int /\ tx.op.totalSlashed \in Int
    BY <2>1 DEF Holdings
  <2>3. FeeFraction \in 0 .. Ether
    BY OperatorAssumption
  <2>4. fee \in 0 .. earnings
    BY <2>1, <2>3, FractionIsPart
  <2> HIDE DEF fee
  <2>5. rest \in Nat /\ p \in Nat /\ p >= rest
    BY <2>1, <2>2, <2>4
  <2> DEFINE r == rest
  <2> HIDE DEF r
  <2>6. (r * tx.op.cut) \div Ether \in 0 .. r
    BY <2>2, <2>5, FractionIsPart DEF r
  <2>7. cut \in 0 .. rest
    BY <2>6 DEF r
  <2> HIDE DEF cut
  <2>8. t1.op \in Holdings /\ SameStakes(tx.op, t1.op) /\ t1.op.balance = p
    <3> HIDE DEF p, t1
    <3> QED
      BY <1>2, <2>1, <2>5, NewBalance
  <2>9. ValueOf(t1.op) = p + tx.op.totalStaked - tx.op.totalSlashed
    BY <2>8 DEF ValueOf, SameStakes
  <2>10. ValueOf(tx.op) = tx.op.balance + tx.op.totalStaked - tx.op.totalSlashed
    BY DEF ValueOf
  <2> HIDE DEF t1
  <2> QED
    BY <2>1, <2>2, <2>4, <2>5, <2>7, <2>8, <2>9, <2>10
<1> HIDE DEF t1, cut, event
<1>4. Sound(t1) /\ Owner \in Holders
  BY <1>2, <1>3, OperatorAssumption DEF Sound
<1>5. t1.ok => cut \in Nat /\ cut <= ValueOf(t1.op)
  BY <1>2, <1>3
<1>6. /\ IsTx(d)
      /\ d.ok => t1.ok /\ d.op \in Holdings /\ SameStakes(t1.op, d.op)
      /\ (t1.ok /\ ValueOf(t1.op) # cut) => d.ok
  BY <1>4, <1>5, DelegatedIs
<1> HIDE DEF d, t
<1>7. IsTx(t) /\ t.op = d.op /\ t.ok = d.ok
  BY <1>1, <1>6, LogKeeps
<1>8. t.ok => tx.ok /\ t.op \in Holdings /\ SameStakes(tx.op, t.op)
  <2> SUFFICES ASSUME t.ok PROVE tx.ok /\ t.op \in Holdings /\ SameStakes(tx.op, t.op)
    OBVIOUS
  <2>1. tx.ok /\ d.ok /\ t1.ok
    BY <1>2, <1>6, <1>7
  <2> QED
    BY <1>3, <1>6, <1>7, <2>1 DEF SameStakes
<1>9. (tx.ok /\ ValueOf(tx.op) > earnings) => t.ok
  BY <1>2, <1>3, <1>6, <1>7
<1> QED
  BY <1>7, <1>8, <1>9 DEF t

\* The totals without a stake and what was slashed of it
Forgotten(a, s) ==
    [[a EXCEPT !.totalStaked = a.totalStaked - a.stakedInto[s]]
        EXCEPT !.totalSlashed = a.totalSlashed - a.slashedIn[s]]

LEMMA ForgottenIs ==
    ASSUME NEW a \in Holdings, StakesSound(a), NEW s \in Sponsorships
    PROVE  LET b == Forgotten(a, s)
           IN  /\ b \in Holdings /\ b.balance = a.balance
               /\ b.totalStaked = a.totalStaked - a.stakedInto[s]
               /\ b.totalSlashed = a.totalSlashed - a.slashedIn[s]
               /\ b.sponsorships = a.sponsorships
               /\ b.stakedInto = a.stakedInto /\ b.slashedIn = a.slashedIn
               /\ b.totalSlashed <= b.totalStaked /\ a.stakedInto[s] \in Nat
               /\ ValueOf(b) >= b.balance
<1> DEFINE stake == a.stakedInto[s]
           y == a.totalStaked - stake
           z == a.totalSlashed - a.slashedIn[s]
           a1 == [a EXCEPT !.totalStaked = y]
           a2 == [a1 EXCEPT !.totalSlashed = z]
<1>1. Forgotten(a, s) = a2
  BY DEF Forgotten
<1>2. /\ y \in Int /\ z \in Int /\ stake \in Int /\ a.slashedIn[s] \in Int
      /\ a.totalStaked \in Int /\ a.totalSlashed \in Int /\ a.balance \in Nat
  BY DEF Holdings
<1>3. stake - a.slashedIn[s] <= a.totalStaked - a.totalSlashed
  BY StakeIsPart
<1>4. z <= y /\ stake \in Nat
  BY <1>2, <1>3 DEF StakesSound
<1> HIDE DEF y
<1>5. /\ a1 \in Holdings /\ a1.balance = a.balance
      /\ a1.stakedInto = a.stakedInto /\ a1.slashedIn = a.slashedIn
      /\ a1.totalStaked = y /\ a1.totalSlashed = a.totalSlashed
      /\ a1.sponsorships = a.sponsorships
  BY <1>2, NewTotalStaked
<1> HIDE DEF a1, z
<1>6. /\ a2 \in Holdings /\ a2.balance = a1.balance
      /\ a2.stakedInto = a1.stakedInto /\ a2.slashedIn = a1.slashedIn
      /\ a2.totalStaked = a1.totalStaked /\ a2.totalSlashed = z
      /\ a2.sponsorships = a1.sponsorships
  BY <1>2, <1>5, NewTotalSlashed
<1> HIDE DEF a2
<1>7. ValueOf(a2) >= a2.balance
  BY <1>2, <1>4, <1>5, <1>6 DEF ValueOf
<1> QED
  BY <1>1, <1>4, <1>5, <1>6, <1>7 DEF y, z

\* _removeSponsorship: the stake and what was slashed of it are forgotten; nothing
\* in it can fail if there was a stake.
LEMMA SponsorshipRemovedIs ==
    ASSUME NEW tx, Sound(tx), NEW s \in Sponsorships, NEW received,
           tx.ok => /\ received \in Nat /\ received <= tx.op.balance
                    /\ StakesSound(tx.op)
    PROVE  LET t == SponsorshipRemoved(tx, s, received)
           IN  /\ IsTx(t)
               /\ t.ok => /\ tx.ok /\ t.op \in Holdings /\ StakesSound(t.op)
                          /\ t.op.sponsorships = tx.op.sponsorships \ {s}
                          /\ t.op.stakedInto = [tx.op.stakedInto EXCEPT ![s] = 0]
                          /\ t.op.slashedIn = [tx.op.slashedIn EXCEPT ![s] = 0]
               /\ (tx.ok /\ tx.op.stakedInto[s] > 0) => t.ok
<1> DEFINE stake == tx.op.stakedInto[s]
           y == tx.op.totalStaked - stake
           z == tx.op.totalSlashed - tx.op.slashedIn[s]
           a1 == [tx.op EXCEPT !.totalStaked = y]
           a2 == [a1 EXCEPT !.totalSlashed = z]
           t1 == [tx EXCEPT !.op.totalStaked = y]
           t2 == [t1 EXCEPT !.op.totalSlashed = z]
           loss == [name |-> "Loss", valueDecreaseWei |-> stake - received]
           result == IF received < stake THEN Log(t2, loss) ELSE EarningsSplit(t2, received - stake)
           v == VoterUpdated(result)
           w == v.op.sponsorships \ {s}
           a3 == [v.op EXCEPT !.sponsorships = w]
           a4 == [a3 EXCEPT !.stakedInto[s] = 0]
           a5 == [a4 EXCEPT !.slashedIn[s] = 0]
           t3 == [v EXCEPT !.op.sponsorships = w]
           t4 == [t3 EXCEPT !.op.stakedInto[s] = 0]
           t5 == [t4 EXCEPT !.op.slashedIn[s] = 0]
           t == SponsorshipRemoved(tx, s, received)
<1>1. t = OperatorValueUpdate(t5)
  BY DEF SponsorshipRemoved
<1>2. IsTx(t2) /\ t2.ok = tx.ok /\ t2.op = a2
  <2>1. IsTx(t1) /\ t1.ok = tx.ok /\ t1.op = a1
    <3> HIDE DEF y
    <3> QED
      BY DEF IsTx, Sound
  <2> HIDE DEF t1, a1
  <2> HIDE DEF z
  <2> QED
    BY <2>1 DEF IsTx
<1>3. ASSUME tx.ok
      PROVE  /\ a2 \in Holdings /\ a2.balance = tx.op.balance
             /\ a2.totalStaked = y /\ a2.totalSlashed = z
             /\ a2.sponsorships = tx.op.sponsorships
             /\ a2.stakedInto = tx.op.stakedInto /\ a2.slashedIn = tx.op.slashedIn
             /\ z <= y /\ stake \in Nat /\ stake >= 0
             /\ ValueOf(a2) >= a2.balance
  <2>1. tx.op \in Holdings /\ StakesSound(tx.op)
    BY <1>3 DEF Sound
  <2>2. a2 = Forgotten(tx.op, s)
    BY DEF Forgotten
  <2>3. stake \in Nat => stake >= 0
    OBVIOUS
  <2> HIDE DEF a2
  <2> QED
    BY <2>1, <2>2, <2>3, ForgottenIs
<1> HIDE DEF t1, t2, a1, a2
<1>4. Sound(t2)
  BY <1>2, <1>3 DEF Sound
<1>5. /\ IsTx(result)
      /\ result.ok => tx.ok /\ result.op \in Holdings /\ SameStakes(a2, result.op)
      /\ (tx.ok /\ stake > 0) => result.ok
  <2>1. CASE received < stake
    <3>1. result = Log(t2, loss)
      BY <2>1
    <3> HIDE DEF result, loss
    <3>2. IsTx(result) /\ result.op = t2.op /\ result.ok = t2.ok
      BY <1>4, <3>1, LogKeeps DEF Sound
    <3>3. result.ok = tx.ok
      BY <1>2, <3>2
    <3>4. result.ok => result.op \in Holdings /\ SameStakes(a2, result.op)
      BY <1>2, <1>3, <3>2, <3>3 DEF SameStakes
    <3> QED
      BY <3>2, <3>3, <3>4
  <2>2. CASE ~(received < stake)
    <3> DEFINE earnings == received - stake
               e == EarningsSplit(t2, earnings)
    <3>1. result = e
      BY <2>2
    <3>2. t2.ok => /\ earnings \in Nat /\ earnings <= t2.op.balance
                   /\ t2.op.totalSlashed <= t2.op.totalStaked
                   /\ stake > 0 => ValueOf(t2.op) > earnings
      <4> SUFFICES ASSUME t2.ok
                   PROVE  /\ earnings \in Nat /\ earnings <= t2.op.balance
                          /\ t2.op.totalSlashed <= t2.op.totalStaked
                          /\ stake > 0 => ValueOf(t2.op) > earnings
        OBVIOUS
      <4>1. received \in Nat /\ received <= tx.op.balance /\ tx.ok
        BY <1>2
      <4>2. tx.op.balance \in Nat /\ ValueOf(a2) \in Int
        BY <1>3, <4>1 DEF Holdings, ValueOf
      <4> HIDE DEF stake, y, z
      <4> QED
        BY <1>2, <1>3, <2>2, <4>1, <4>2
    <3> HIDE DEF earnings
    <3>3. /\ IsTx(e)
          /\ e.ok => t2.ok /\ e.op \in Holdings /\ SameStakes(t2.op, e.op)
          /\ (t2.ok /\ ValueOf(t2.op) > earnings) => e.ok
      BY <1>4, <3>2, EarningsSplitIs
    <3> HIDE DEF e, result, stake
    <3> QED
      BY <1>2, <3>1, <3>2, <3>3
  <2> QED
    BY <2>1, <2>2
<1> HIDE DEF result
<1>6. Sound(result)
  BY <1>5 DEF Sound
<1>7. Sound(v) /\ v.ok = result.ok /\ (result.ok => SameStakes(result.op, v.op))
  BY <1>6, VoterUpdatedIs
<1> HIDE DEF v
<1>8. IsTx(t5) /\ t5.ok = v.ok /\ t5.op = a5
  <2>1. IsTx(t3) /\ t3.ok = v.ok /\ t3.op = a3
    <3> HIDE DEF w
    <3> QED
      BY <1>7 DEF IsTx, Sound
  <2> HIDE DEF t3, a3
  <2>2. IsTx(t4) /\ t4.ok = v.ok /\ t4.op = a4
    BY <2>1 DEF IsTx
  <2> HIDE DEF t4, a4
  <2> QED
    BY <2>2 DEF IsTx
<1>9. ASSUME v.ok
      PROVE  /\ tx.ok /\ a5 \in Holdings /\ StakesSound(a5)
             /\ a5.sponsorships = tx.op.sponsorships \ {s}
             /\ a5.stakedInto = [tx.op.stakedInto EXCEPT ![s] = 0]
             /\ a5.slashedIn = [tx.op.slashedIn EXCEPT ![s] = 0]
  <2>1. tx.ok /\ v.op \in Holdings
    BY <1>5, <1>7, <1>9 DEF Sound
  <2>2. /\ v.op.sponsorships = tx.op.sponsorships
        /\ v.op.stakedInto = tx.op.stakedInto /\ v.op.slashedIn = tx.op.slashedIn
        /\ v.op.totalStaked = y /\ v.op.totalSlashed = z
    BY <1>3, <1>5, <1>7, <1>9, <2>1 DEF SameStakes
  <2>3. w \in SUBSET Sponsorships
    BY <2>1 DEF Holdings
  <2>4. w = tx.op.sponsorships \ {s}
    BY <2>2
  <2> HIDE DEF w, y, z
  <2>5. /\ a3 \in Holdings
        /\ a3.stakedInto = v.op.stakedInto /\ a3.slashedIn = v.op.slashedIn
        /\ a3.totalStaked = v.op.totalStaked /\ a3.totalSlashed = v.op.totalSlashed
        /\ a3.sponsorships = w
    BY <2>1, <2>3, NewSponsorships
  <2> HIDE DEF a3
  <2>6. /\ a4 \in Holdings
        /\ a4.stakedInto = [a3.stakedInto EXCEPT ![s] = 0] /\ a4.slashedIn = a3.slashedIn
        /\ a4.totalStaked = a3.totalStaked /\ a4.totalSlashed = a3.totalSlashed
        /\ a4.sponsorships = a3.sponsorships
    BY <2>5, NewStakedInto
  <2> HIDE DEF a4
  <2>7. /\ a5 \in Holdings
        /\ a5.stakedInto = a4.stakedInto /\ a5.slashedIn = [a4.slashedIn EXCEPT ![s] = 0]
        /\ a5.totalStaked = a4.totalStaked /\ a5.totalSlashed = a4.totalSlashed
        /\ a5.sponsorships = a4.sponsorships
    BY <2>6, NewSlashedIn
  <2> HIDE DEF a5
  <2>8. /\ a5.stakedInto = [tx.op.stakedInto EXCEPT ![s] = 0]
        /\ a5.slashedIn = [tx.op.slashedIn EXCEPT ![s] = 0]
        /\ a5.sponsorships = w /\ a5.totalStaked = y /\ a5.totalSlashed = z
    BY <2>2, <2>5, <2>6, <2>7
  <2>9. StakesSound(a5)
    <3>1. tx.op \in Holdings /\ StakesSound(tx.op)
      BY <2>1 DEF Sound
    <3>2. /\ tx.op.totalStaked \in Int /\ tx.op.totalSlashed \in Int
          /\ stake \in Int /\ tx.op.slashedIn[s] \in Int
      BY <3>1 DEF Holdings
    <3>3. a5.totalStaked = tx.op.totalStaked - tx.op.stakedInto[s] + 0
          /\ a5.totalSlashed = tx.op.totalSlashed - tx.op.slashedIn[s] + 0
      BY <2>8, <3>2 DEF y, z
    <3>4. s \notin a5.sponsorships
          /\ \A r \in Sponsorships \ {s} : r \in a5.sponsorships <=> r \in tx.op.sponsorships
      BY <2>4, <2>8
    <3>5. s \in a5.sponsorships <=> 0 > 0
      BY <3>4
    <3>6. 0 \in Nat /\ 0 <= 0
      OBVIOUS
    <3> QED
      BY <2>7, <2>8, <3>1, <3>3, <3>4, <3>5, <3>6, OneStakeChanges
  <2> QED
    BY <2>1, <2>4, <2>7, <2>8, <2>9
<1> HIDE DEF t5, a5, t
<1>10. IsTx(t) /\ t.op = t5.op /\ t.ok = t5.ok
  BY <1>1, <1>8, ReportsKeep
<1>11. t.ok => /\ tx.ok /\ t.op \in Holdings /\ StakesSound(t.op)
               /\ t.op.sponsorships = tx.op.sponsorships \ {s}
               /\ t.op.stakedInto = [tx.op.stakedInto EXCEPT ![s] = 0]
               /\ t.op.slashedIn = [tx.op.slashedIn EXCEPT ![s] = 0]
  BY <1>8, <1>9, <1>10
<1>12. (tx.ok /\ tx.op.stakedInto[s] > 0) => t.ok
  BY <1>5, <1>7, <1>8, <1>10
<1> QED
  BY <1>10, <1>11, <1>12 DEF t

-----------------------------------------------------------------------------
(* The callbacks of a Sponsorship *)

\* onSlash of a part of what is left of a stake always succeeds.
LEMMA OnSlashIs ==
    ASSUME NEW tx, Sound(tx), NEW s \in Sponsorships, NEW amount \in Nat \ {0},
           tx.ok => /\ StakesSound(tx.op) /\ s \in tx.op.sponsorships
                    /\ amount <= tx.op.stakedInto[s] - tx.op.slashedIn[s]
    PROVE  LET t == OnSlash(tx, s, amount)
           IN  /\ IsTx(t) /\ t.ok = tx.ok
               /\ t.ok => /\ t.op \in Holdings /\ StakesSound(t.op)
                          /\ t.op.sponsorships = tx.op.sponsorships
                          /\ t.op.stakedInto = tx.op.stakedInto
                          /\ t.op.slashedIn = [tx.op.slashedIn EXCEPT ![s] = @ + amount]
                          /\ t.op.balance = tx.op.balance
<1> DEFINE sd == SlashSelfDelegation(tx, amount)
           x == sd.op.slashedIn[s] + amount
           y == sd.op.totalSlashed + amount
           a1 == [sd.op EXCEPT !.slashedIn[s] = x]
           a2 == [a1 EXCEPT !.totalSlashed = y]
           t1 == [sd EXCEPT !.op.slashedIn[s] = x]
           t2 == [t1 EXCEPT !.op.totalSlashed = y]
           joined == s \in tx.op.sponsorships
           able == Require(t2, joined)
           after == OperatorValueUpdate(able)
           t == OnSlash(tx, s, amount)
<1>1. t = IF after.ok THEN after ELSE tx
  BY DEF OnSlash, Tried
<1>2. tx.ok => ValueOf(tx.op) > 0
  <2> SUFFICES ASSUME tx.ok PROVE ValueOf(tx.op) > 0
    OBVIOUS
  <2>1. tx.op \in Holdings /\ StakesSound(tx.op)
    BY DEF Sound
  <2>2. /\ ValueOf(tx.op) \in Nat
        /\ ValueOf(tx.op) >= tx.op.balance + tx.op.stakedInto[s] - tx.op.slashedIn[s]
    BY <2>1, StakeIsPart
  <2>3. tx.op.balance \in Nat /\ tx.op.stakedInto[s] \in Int /\ tx.op.slashedIn[s] \in Int
    BY <2>1 DEF Holdings
  <2> QED
    BY <2>2, <2>3
<1>3. /\ IsTx(sd)
      /\ sd.ok => /\ tx.ok /\ sd.op \in Holdings /\ SameStakes(tx.op, sd.op)
                  /\ sd.op.balance = tx.op.balance
      /\ tx.ok => sd.ok
  <2>1. tx.ok => ValueOf(tx.op) >= 0
    BY <1>2 DEF ValueOf, Holdings, Sound
  <2> HIDE DEF sd
  <2> QED
    BY <1>2, <2>1, SlashSelfDelegationIs DEF sd
<1> HIDE DEF sd
<1>4. IsTx(t2) /\ t2.ok = sd.ok /\ t2.op = a2
  <2>1. IsTx(t1) /\ t1.ok = sd.ok /\ t1.op = a1
    <3> HIDE DEF x
    <3> QED
      BY <1>3 DEF IsTx
  <2> HIDE DEF t1, a1, y
  <2> QED
    BY <2>1 DEF IsTx
<1>5. ASSUME sd.ok
      PROVE  /\ a2 \in Holdings /\ StakesSound(a2)
             /\ a2.sponsorships = tx.op.sponsorships
             /\ a2.stakedInto = tx.op.stakedInto
             /\ a2.slashedIn = [tx.op.slashedIn EXCEPT ![s] = @ + amount]
             /\ a2.balance = tx.op.balance
  <2>1. /\ tx.op \in Holdings /\ StakesSound(tx.op) /\ s \in tx.op.sponsorships
        /\ amount <= tx.op.stakedInto[s] - tx.op.slashedIn[s]
        /\ sd.op \in Holdings /\ SameStakes(tx.op, sd.op) /\ sd.op.balance = tx.op.balance
    BY <1>3, <1>5 DEF Sound
  <2>2. /\ tx.op.stakedInto[s] \in Int /\ tx.op.slashedIn[s] \in Int
        /\ tx.op.totalStaked \in Int /\ tx.op.totalSlashed \in Int
        /\ tx.op.stakedInto \in [Sponsorships -> Int]
    BY <2>1 DEF Holdings
  <2>3. x = tx.op.slashedIn[s] + amount /\ y = tx.op.totalSlashed + amount
    BY <2>1 DEF SameStakes
  <2>4. 0 <= tx.op.slashedIn[s] /\ tx.op.slashedIn[s] <= tx.op.stakedInto[s]
    BY <2>1 DEF StakesSound
  <2> HIDE DEF x, y
  <2>5. x \in Int /\ y \in Int
    BY <2>2, <2>3
  <2>6. /\ a1 \in Holdings /\ a1.balance = sd.op.balance
        /\ a1.stakedInto = sd.op.stakedInto
        /\ a1.slashedIn = [sd.op.slashedIn EXCEPT ![s] = x]
        /\ a1.totalStaked = sd.op.totalStaked /\ a1.totalSlashed = sd.op.totalSlashed
        /\ a1.sponsorships = sd.op.sponsorships
    BY <2>1, <2>5, NewSlashedIn
  <2> HIDE DEF a1
  <2>7. /\ a2 \in Holdings /\ a2.balance = a1.balance
        /\ a2.stakedInto = a1.stakedInto /\ a2.slashedIn = a1.slashedIn
        /\ a2.totalStaked = a1.totalStaked /\ a2.totalSlashed = y
        /\ a2.sponsorships = a1.sponsorships
    BY <2>5, <2>6, NewTotalSlashed
  <2> HIDE DEF a2
  <2>8. /\ a2.balance = tx.op.balance /\ a2.stakedInto = tx.op.stakedInto
        /\ a2.slashedIn = [tx.op.slashedIn EXCEPT ![s] = x]
        /\ a2.totalStaked = tx.op.totalStaked /\ a2.totalSlashed = y
        /\ a2.sponsorships = tx.op.sponsorships
    BY <2>1, <2>6, <2>7 DEF SameStakes
  <2> DEFINE w == tx.op.stakedInto[s]
  <2>9. /\ w \in Nat /\ x \in Nat /\ x <= w
        /\ tx.op.totalStaked = tx.op.totalStaked - tx.op.stakedInto[s] + w
        /\ y = tx.op.totalSlashed - tx.op.slashedIn[s] + x
        /\ s \in tx.op.sponsorships <=> w > 0
    BY <2>1, <2>2, <2>3, <2>4 DEF StakesSound
  <2>10. a2.stakedInto = [tx.op.stakedInto EXCEPT ![s] = w]
    BY <2>2, <2>8
  <2> HIDE DEF w
  <2>11. StakesSound(a2)
    <3>1. /\ a2.totalStaked = tx.op.totalStaked - tx.op.stakedInto[s] + w
          /\ a2.totalSlashed = tx.op.totalSlashed - tx.op.slashedIn[s] + x
      BY <2>8, <2>9
    <3>2. /\ s \in a2.sponsorships <=> w > 0
          /\ \A r \in Sponsorships \ {s} : r \in a2.sponsorships <=> r \in tx.op.sponsorships
      BY <2>8, <2>9
    <3> QED
      BY <2>1, <2>7, <2>8, <2>9, <2>10, <3>1, <3>2, OneStakeChanges
  <2> QED
    BY <2>3, <2>7, <2>8, <2>11
<1> HIDE DEF t2, a2
<1>6. /\ IsTx(able) /\ able.op = t2.op
      /\ able.ok => t2.ok
      /\ joined => able = t2
  <2> HIDE DEF joined
  <2> QED
    BY <1>4 DEF Require, IsTx
<1> HIDE DEF able, t
<1>7. IsTx(after) /\ after.op = able.op /\ after.ok = able.ok
  BY <1>6, ReportsKeep
<1> HIDE DEF after
<1>8. after.ok => tx.ok
  BY <1>3, <1>4, <1>6, <1>7
<1>9. tx.ok => after.ok
  BY <1>3, <1>4, <1>6, <1>7
<1>10. CASE after.ok
  <2>1. t = after
    BY <1>1, <1>10
  <2>2. IsTx(t) /\ t.ok
    BY <1>7, <1>10, <2>1
  <2>3. t.op = a2 /\ sd.ok
    BY <1>3, <1>4, <1>6, <1>7, <1>8, <1>10, <2>1
  <2>4. t.ok = tx.ok
    <3>1. tx.ok \in BOOLEAN /\ t.ok \in BOOLEAN /\ tx.ok
      BY <1>8, <1>10, <2>2 DEF IsTx, Sound
    <3> QED
      BY <2>2, <3>1
  <2> QED
    BY <1>5, <2>2, <2>3, <2>4 DEF t
<1>11. CASE ~after.ok
  <2>1. t = tx /\ ~tx.ok
    BY <1>1, <1>9, <1>11
  <2> QED
    BY <2>1 DEF Sound, t
<1> QED
  BY <1>10, <1>11

\* What the Sponsorship slashes from one who leaves is accounted for.
LEMMA SlashedByIs ==
    ASSUME NEW tx, Sound(tx), NEW s \in Sponsorships,
           NEW losses \in [locked : Nat, penalty : Nat],
           tx.ok => /\ StakesSound(tx.op) /\ s \in tx.op.sponsorships
                    /\ losses.locked + losses.penalty <= tx.op.stakedInto[s] - tx.op.slashedIn[s]
    PROVE  LET t == SlashedBy(tx, s, losses)
           IN  /\ IsTx(t) /\ t.ok = tx.ok
               /\ t.ok => /\ t.op \in Holdings /\ StakesSound(t.op)
                          /\ t.op.sponsorships = tx.op.sponsorships
                          /\ t.op.stakedInto = tx.op.stakedInto
                          /\ t.op.slashedIn = [tx.op.slashedIn EXCEPT
                                                 ![s] = @ + losses.locked + losses.penalty]
                          /\ t.op.balance = tx.op.balance
<1> DEFINE u == IF losses.locked = 0 THEN tx ELSE OnSlash(tx, s, losses.locked)
           t == IF losses.penalty = 0 THEN u ELSE OnSlash(u, s, losses.penalty)
<1>1. SlashedBy(tx, s, losses) = t
  BY DEF SlashedBy
<1>2. losses.locked \in Nat /\ losses.penalty \in Nat
  OBVIOUS
<1>3. tx.ok => /\ tx.op \in Holdings /\ tx.op.slashedIn \in [Sponsorships -> Int]
               /\ tx.op.slashedIn[s] \in Int /\ tx.op.stakedInto[s] \in Int
  BY DEF Sound, Holdings
<1>4. /\ IsTx(u) /\ u.ok = tx.ok
      /\ u.ok => /\ u.op \in Holdings /\ StakesSound(u.op)
                 /\ u.op.sponsorships = tx.op.sponsorships
                 /\ u.op.stakedInto = tx.op.stakedInto
                 /\ u.op.slashedIn = [tx.op.slashedIn EXCEPT ![s] = @ + losses.locked]
                 /\ u.op.balance = tx.op.balance
  <2>1. CASE losses.locked = 0
    <3>1. u = tx
      BY <2>1
    <3> HIDE DEF u
    <3>2. IsTx(u) /\ u.ok = tx.ok
      BY <3>1 DEF Sound
    <3>3. ASSUME u.ok PROVE u.op.slashedIn = [tx.op.slashedIn EXCEPT ![s] = @ + losses.locked]
      BY <1>3, <2>1, <3>1, <3>3
    <3>4. ASSUME u.ok PROVE u.op \in Holdings /\ StakesSound(u.op)
      BY <1>3, <3>1, <3>4
    <3> QED
      BY <3>1, <3>2, <3>3, <3>4
  <2>2. CASE losses.locked # 0
    <3> DEFINE amount == losses.locked
    <3>1. amount \in Nat \ {0}
      BY <1>2, <2>2
    <3>2. tx.ok => amount <= tx.op.stakedInto[s] - tx.op.slashedIn[s]
      BY <1>2, <1>3
    <3>3. u = OnSlash(tx, s, amount)
      BY <2>2
    <3> HIDE DEF amount, u
    <3>4. /\ IsTx(u) /\ u.ok = tx.ok
          /\ u.ok => /\ u.op \in Holdings /\ StakesSound(u.op)
                     /\ u.op.sponsorships = tx.op.sponsorships
                     /\ u.op.stakedInto = tx.op.stakedInto
                     /\ u.op.slashedIn = [tx.op.slashedIn EXCEPT ![s] = @ + amount]
                     /\ u.op.balance = tx.op.balance
      BY <3>1, <3>2, <3>3, OnSlashIs
    <3> QED
      BY <3>4 DEF amount
  <2> QED
    BY <2>1, <2>2
<1> HIDE DEF u
<1>5. u.ok => /\ u.op.slashedIn \in [Sponsorships -> Int]
              /\ u.op.slashedIn[s] = tx.op.slashedIn[s] + losses.locked
  BY <1>3, <1>4
<1>6. /\ IsTx(t) /\ t.ok = u.ok
      /\ t.ok => /\ t.op \in Holdings /\ StakesSound(t.op)
                 /\ t.op.sponsorships = u.op.sponsorships
                 /\ t.op.stakedInto = u.op.stakedInto
                 /\ t.op.slashedIn = [u.op.slashedIn EXCEPT ![s] = @ + losses.penalty]
                 /\ t.op.balance = u.op.balance
  <2>1. CASE losses.penalty = 0
    <3>1. t = u
      BY <2>1
    <3> HIDE DEF t
    <3>2. IsTx(t) /\ t.ok = u.ok
      BY <1>4, <3>1
    <3>3. ASSUME t.ok PROVE t.op.slashedIn = [u.op.slashedIn EXCEPT ![s] = @ + losses.penalty]
      <4>1. u.op.slashedIn[s] \in Int
        BY <1>3, <1>5, <3>1, <3>3
      <4> QED
        BY <1>5, <2>1, <3>1, <3>3, <4>1
    <3>4. ASSUME t.ok PROVE t.op \in Holdings /\ StakesSound(t.op)
      BY <1>4, <3>1, <3>4
    <3> QED
      BY <3>1, <3>2, <3>3, <3>4
  <2>2. CASE losses.penalty # 0
    <3> DEFINE amount == losses.penalty
    <3>1. amount \in Nat \ {0}
      BY <1>2, <2>2
    <3>2. u.ok => /\ StakesSound(u.op) /\ s \in u.op.sponsorships
                  /\ amount <= u.op.stakedInto[s] - u.op.slashedIn[s]
      BY <1>2, <1>3, <1>4, <1>5
    <3>3. t = OnSlash(u, s, amount)
      BY <2>2
    <3>4. Sound(u)
      BY <1>4 DEF Sound
    <3> HIDE DEF amount, t
    <3>5. /\ IsTx(t) /\ t.ok = u.ok
          /\ t.ok => /\ t.op \in Holdings /\ StakesSound(t.op)
                     /\ t.op.sponsorships = u.op.sponsorships
                     /\ t.op.stakedInto = u.op.stakedInto
                     /\ t.op.slashedIn = [u.op.slashedIn EXCEPT ![s] = @ + amount]
                     /\ t.op.balance = u.op.balance
      BY <3>1, <3>2, <3>3, <3>4, OnSlashIs
    <3> QED
      BY <3>5 DEF amount
  <2> QED
    BY <2>1, <2>2
<1> HIDE DEF t
<1>7. IsTx(t) /\ t.ok = tx.ok
  BY <1>4, <1>6
<1>8. ASSUME t.ok
      PROVE  /\ t.op \in Holdings /\ StakesSound(t.op)
             /\ t.op.sponsorships = tx.op.sponsorships
             /\ t.op.stakedInto = tx.op.stakedInto
             /\ t.op.slashedIn = [tx.op.slashedIn EXCEPT
                                    ![s] = @ + losses.locked + losses.penalty]
             /\ t.op.balance = tx.op.balance
  BY <1>3, <1>4, <1>6, <1>7, <1>8
<1> QED
  BY <1>1, <1>7, <1>8

\* onKick without what the Sponsorship has sent, and up to _removeSponsorship
KickBegun(tx, received) == [tx EXCEPT !.op.totalSlashed = @ + received]

TakenAtKick(tx, s, slashed, received) ==
    LET burned == [SlashSelfDelegation(KickBegun(tx, received), slashed)
                     EXCEPT !.op.totalSlashed = @ - received]
    IN  Require(IF slashed > 0 THEN burned ELSE tx, s \in tx.op.sponsorships)

LEMMA TakenAtKickIs ==
    ASSUME NEW tx, Sound(tx), NEW s \in Sponsorships, NEW slashed \in Nat, NEW received \in Nat,
           tx.ok => /\ StakesSound(tx.op) /\ s \in tx.op.sponsorships
                    /\ received <= tx.op.balance
                    /\ slashed <= tx.op.stakedInto[s] - tx.op.slashedIn[s]
    PROVE  LET without == KickBegun(tx, received)
               t == TakenAtKick(tx, s, slashed, received)
           IN  /\ Sound(without) /\ without.ok = tx.ok /\ without.log = tx.log
               /\ without.ok => ValueOf(without.op) >= 0
               /\ Sound(t) /\ (tx.ok => t.ok)
               /\ t.ok => /\ tx.ok /\ SameStakes(tx.op, t.op) /\ StakesSound(t.op)
                          /\ t.op.balance = tx.op.balance /\ tx.op.stakedInto[s] > 0
<1> DEFINE x == tx.op.totalSlashed + received
           without == [tx EXCEPT !.op.totalSlashed = x]
           sd == SlashSelfDelegation(without, slashed)
           y == sd.op.totalSlashed - received
           burned == [sd EXCEPT !.op.totalSlashed = y]
           punished == IF slashed > 0 THEN burned ELSE tx
           joined == s \in tx.op.sponsorships
           able == Require(punished, joined)
<1>0. without = KickBegun(tx, received)
  BY DEF KickBegun
<1>1. able = TakenAtKick(tx, s, slashed, received)
  BY DEF TakenAtKick, KickBegun
<1>2. tx.ok => /\ tx.op \in Holdings /\ StakesSound(tx.op) /\ received <= tx.op.balance
               /\ tx.op.balance \in Nat /\ tx.op.totalStaked \in Int
               /\ tx.op.totalSlashed \in Int /\ x \in Int
               /\ tx.op.stakedInto[s] \in Int /\ tx.op.slashedIn[s] \in Int
               /\ tx.op.stakedInto[s] > 0
               /\ slashed <= tx.op.stakedInto[s] - tx.op.slashedIn[s]
               /\ tx.op.stakedInto[s] - tx.op.slashedIn[s]
                    <= tx.op.totalStaked - tx.op.totalSlashed
  <2> SUFFICES ASSUME tx.ok
               PROVE  /\ tx.op \in Holdings /\ StakesSound(tx.op) /\ received <= tx.op.balance
                      /\ tx.op.balance \in Nat /\ tx.op.totalStaked \in Int
                      /\ tx.op.totalSlashed \in Int /\ x \in Int
                      /\ tx.op.stakedInto[s] \in Int /\ tx.op.slashedIn[s] \in Int
                      /\ tx.op.stakedInto[s] > 0
                      /\ slashed <= tx.op.stakedInto[s] - tx.op.slashedIn[s]
                      /\ tx.op.stakedInto[s] - tx.op.slashedIn[s]
                           <= tx.op.totalStaked - tx.op.totalSlashed
    OBVIOUS
  <2>1. tx.op \in Holdings /\ StakesSound(tx.op) /\ s \in tx.op.sponsorships
    BY DEF Sound
  <2>2. /\ tx.op.balance \in Nat /\ tx.op.totalStaked \in Int /\ tx.op.totalSlashed \in Int
        /\ tx.op.stakedInto[s] \in Int /\ tx.op.slashedIn[s] \in Int
    BY <2>1 DEF Holdings
  <2>3. tx.op.stakedInto[s] > 0
    BY <2>1 DEF StakesSound
  <2>4. tx.op.stakedInto[s] - tx.op.slashedIn[s] <= tx.op.totalStaked - tx.op.totalSlashed
    BY <2>1, StakeIsPart
  <2> QED
    BY <2>1, <2>2, <2>3, <2>4
<1>3. /\ IsTx(without) /\ without.ok = tx.ok /\ without.log = tx.log
      /\ without.op = [tx.op EXCEPT !.totalSlashed = x]
  <2> HIDE DEF x
  <2> QED
    BY DEF IsTx, Sound
<1>4. ASSUME tx.ok
      PROVE  /\ without.op \in Holdings /\ without.op.totalSlashed = x
             /\ without.op.balance = tx.op.balance
             /\ without.op.totalStaked = tx.op.totalStaked
             /\ without.op.stakedInto = tx.op.stakedInto
             /\ without.op.slashedIn = tx.op.slashedIn
             /\ without.op.sponsorships = tx.op.sponsorships
             /\ ValueOf(without.op) >= slashed
  <2>1. tx.op \in Holdings /\ x \in Int
    BY <1>2, <1>4
  <2> HIDE DEF without, x
  <2>2. /\ without.op \in Holdings /\ without.op.totalSlashed = x
        /\ without.op.balance = tx.op.balance
        /\ without.op.totalStaked = tx.op.totalStaked
        /\ without.op.stakedInto = tx.op.stakedInto
        /\ without.op.slashedIn = tx.op.slashedIn
        /\ without.op.sponsorships = tx.op.sponsorships
    BY <1>3, <2>1, NewTotalSlashed
  <2>3. ValueOf(without.op) >= slashed
    BY <1>2, <1>4, <2>2 DEF ValueOf, x
  <2> QED
    BY <2>2, <2>3
<1> HIDE DEF without
<1>5. Sound(without) /\ (without.ok => ValueOf(without.op) >= 0)
  <2>1. ASSUME tx.ok PROVE ValueOf(without.op) >= 0
    <3>1. ValueOf(without.op) \in Int
      BY <1>4, <2>1 DEF ValueOf, Holdings
    <3> QED
      BY <1>4, <2>1, <3>1
  <2> QED
    BY <1>3, <1>4, <2>1 DEF Sound
<1>6. /\ IsTx(sd)
      /\ sd.ok => /\ without.ok /\ sd.op \in Holdings /\ SameStakes(without.op, sd.op)
                  /\ sd.op.balance = without.op.balance
      /\ (without.ok /\ ValueOf(without.op) > 0) => sd.ok
  BY <1>5, SlashSelfDelegationIs
<1> HIDE DEF sd
<1>7. IsTx(burned) /\ burned.ok = sd.ok /\ burned.op = [sd.op EXCEPT !.totalSlashed = y]
  <2> HIDE DEF y
  <2> QED
    BY <1>6 DEF IsTx
<1>8. ASSUME sd.ok
      PROVE  /\ burned.op \in Holdings /\ SameStakes(tx.op, burned.op)
             /\ burned.op.balance = tx.op.balance /\ tx.ok
  <2>1. tx.ok
    BY <1>3, <1>6, <1>8
  <2>2. /\ sd.op \in Holdings /\ sd.op.totalSlashed = x
        /\ sd.op.balance = tx.op.balance
        /\ sd.op.totalStaked = tx.op.totalStaked
        /\ sd.op.stakedInto = tx.op.stakedInto
        /\ sd.op.slashedIn = tx.op.slashedIn
        /\ sd.op.sponsorships = tx.op.sponsorships
    BY <1>4, <1>6, <1>8, <2>1 DEF SameStakes
  <2>3. y = tx.op.totalSlashed /\ y \in Int
    BY <1>2, <2>1, <2>2
  <2> HIDE DEF y, burned
  <2>4. /\ burned.op \in Holdings /\ burned.op.balance = sd.op.balance
        /\ burned.op.stakedInto = sd.op.stakedInto /\ burned.op.slashedIn = sd.op.slashedIn
        /\ burned.op.totalStaked = sd.op.totalStaked /\ burned.op.totalSlashed = y
        /\ burned.op.sponsorships = sd.op.sponsorships
    BY <1>7, <2>2, <2>3, NewTotalSlashed
  <2> QED
    BY <2>1, <2>2, <2>3, <2>4 DEF SameStakes
<1> HIDE DEF burned
<1>9. /\ IsTx(punished)
      /\ punished.ok => /\ tx.ok /\ punished.op \in Holdings /\ SameStakes(tx.op, punished.op)
                        /\ punished.op.balance = tx.op.balance
      /\ tx.ok => punished.ok
  <2>1. CASE slashed > 0
    <3>1. punished = burned
      BY <2>1
    <3>2. tx.ok => ValueOf(without.op) > 0
      <4> SUFFICES ASSUME tx.ok PROVE ValueOf(without.op) > 0
        OBVIOUS
      <4>1. ValueOf(without.op) \in Int /\ ValueOf(without.op) >= slashed
        BY <1>4 DEF ValueOf, Holdings
      <4> QED
        BY <2>1, <4>1
    <3> HIDE DEF punished
    <3>3. IsTx(punished) /\ punished.ok = sd.ok
      BY <1>7, <3>1
    <3>4. tx.ok => punished.ok
      BY <1>3, <1>6, <3>2, <3>3
    <3> QED
      BY <1>8, <3>1, <3>3, <3>4
  <2>2. CASE ~(slashed > 0)
    <3>1. punished = tx
      BY <2>2
    <3> HIDE DEF punished
    <3> QED
      BY <1>2, <3>1 DEF Sound, SameStakes
  <2> QED
    BY <2>1, <2>2
<1> HIDE DEF punished
<1>10. /\ IsTx(able) /\ able.op = punished.op
       /\ able.ok => punished.ok
       /\ joined => able = punished
  <2> HIDE DEF joined
  <2> QED
    BY <1>9 DEF Require, IsTx
<1> HIDE DEF able
<1>11. able.ok => /\ tx.ok /\ able.op \in Holdings /\ SameStakes(tx.op, able.op)
                  /\ able.op.balance = tx.op.balance /\ StakesSound(able.op)
  <2> SUFFICES ASSUME able.ok
               PROVE  /\ tx.ok /\ able.op \in Holdings /\ SameStakes(tx.op, able.op)
                      /\ able.op.balance = tx.op.balance /\ StakesSound(able.op)
    OBVIOUS
  <2>1. /\ tx.ok /\ able.op \in Holdings /\ SameStakes(tx.op, able.op)
        /\ able.op.balance = tx.op.balance
    BY <1>9, <1>10
  <2>2. StakesSound(able.op)
    BY <1>2, <2>1, SameStakesAreSound
  <2> QED
    BY <2>1, <2>2
<1>12. tx.ok => able.ok
  BY <1>9, <1>10
<1>13. Sound(able)
       /\ (able.ok => /\ received \in Nat /\ received <= able.op.balance
                      /\ StakesSound(able.op))
  BY <1>2, <1>10, <1>11 DEF Sound
<1> QED
  BY <1>0, <1>1, <1>2, <1>3, <1>5, <1>11, <1>12, <1>13

\* onKick always succeeds, so that the stake is forgotten whenever it is gone: the
\* value without what the Sponsorship has sent still covers what was slashed.
LEMMA OnKickIs ==
    ASSUME NEW tx, Sound(tx), NEW s \in Sponsorships, NEW slashed \in Nat, NEW received \in Nat,
           tx.ok => /\ StakesSound(tx.op) /\ s \in tx.op.sponsorships
                    /\ received <= tx.op.balance
                    /\ slashed <= tx.op.stakedInto[s] - tx.op.slashedIn[s]
    PROVE  LET t == OnKick(tx, s, slashed, received)
           IN  /\ IsTx(t) /\ t.ok = tx.ok
               /\ t.ok => /\ t.op \in Holdings /\ StakesSound(t.op)
                          /\ t.op.sponsorships = tx.op.sponsorships \ {s}
                          /\ t.op.stakedInto = [tx.op.stakedInto EXCEPT ![s] = 0]
                          /\ t.op.slashedIn = [tx.op.slashedIn EXCEPT ![s] = 0]
<1> DEFINE able == TakenAtKick(tx, s, slashed, received)
           after == SponsorshipRemoved(able, s, received)
           t == OnKick(tx, s, slashed, received)
<1>1. t = IF after.ok THEN after ELSE tx
  BY DEF OnKick, Tried, TakenAtKick, KickBegun
<1> HIDE DEF able, t
<1>2. /\ Sound(able) /\ (tx.ok => able.ok)
      /\ able.ok => /\ tx.ok /\ SameStakes(tx.op, able.op) /\ StakesSound(able.op)
                    /\ able.op.balance = tx.op.balance /\ tx.op.stakedInto[s] > 0
  BY TakenAtKickIs DEF able
<1>3. able.ok => /\ received \in Nat /\ received <= able.op.balance
                 /\ StakesSound(able.op)
  BY <1>2
<1>4. /\ IsTx(after)
      /\ after.ok => /\ able.ok /\ after.op \in Holdings /\ StakesSound(after.op)
                     /\ after.op.sponsorships = able.op.sponsorships \ {s}
                     /\ after.op.stakedInto = [able.op.stakedInto EXCEPT ![s] = 0]
                     /\ after.op.slashedIn = [able.op.slashedIn EXCEPT ![s] = 0]
      /\ (able.ok /\ able.op.stakedInto[s] > 0) => after.ok
  BY <1>2, <1>3, SponsorshipRemovedIs
<1> HIDE DEF after
<1>5. tx.ok => after.ok
  <2> SUFFICES ASSUME tx.ok PROVE after.ok
    OBVIOUS
  <2>1. able.op.stakedInto[s] > 0
    BY <1>2 DEF SameStakes
  <2> QED
    BY <1>2, <1>4, <2>1
<1>6. CASE after.ok
  <2>1. t = after /\ tx.ok
    BY <1>1, <1>2, <1>4, <1>6
  <2>2. IsTx(t) /\ t.ok
    BY <1>4, <1>6, <2>1
  <2>3. t.ok = tx.ok
    <3>1. tx.ok \in BOOLEAN /\ t.ok \in BOOLEAN
      BY <2>2 DEF IsTx, Sound
    <3> QED
      BY <2>1, <2>2, <3>1
  <2>4. /\ t.op \in Holdings /\ StakesSound(t.op)
        /\ t.op.sponsorships = tx.op.sponsorships \ {s}
        /\ t.op.stakedInto = [tx.op.stakedInto EXCEPT ![s] = 0]
        /\ t.op.slashedIn = [tx.op.slashedIn EXCEPT ![s] = 0]
    BY <1>2, <1>4, <1>6, <2>1 DEF SameStakes
  <2> QED
    BY <2>2, <2>3, <2>4 DEF t
<1>7. CASE ~after.ok
  <2>1. t = tx /\ ~tx.ok
    BY <1>1, <1>5, <1>7
  <2> QED
    BY <2>1 DEF Sound, t
<1> QED
  BY <1>6, <1>7

\* The fisherman's reward comes out of the balance, not of the stakes.
LEMMA FishermanRewardIs ==
    ASSUME NEW tx, Sound(tx), NEW valueBefore, NEW earnings \in Nat,
           tx.ok => ValueOf(tx.op) >= 0
    PROVE  LET t == FishermanReward(tx, valueBefore, earnings)
           IN  /\ IsTx(t)
               /\ t.ok => tx.ok /\ t.op \in Holdings /\ SameStakes(tx.op, t.op)
<1> DEFINE reward == (earnings * FishermanFraction) \div Ether
           slashed == SlashSelfDelegation(tx, reward)
           enough == reward <= slashed.op.balance
           able == Require(slashed, enough)
           x == able.op.balance - reward
           sent == [able EXCEPT !.op.balance = x]
           tooMuch == earnings > (valueBefore * AllowedEarningsFraction) \div Ether
           after == OperatorValueUpdate(sent)
           t == FishermanReward(tx, valueBefore, earnings)
<1>1. t = IF tooMuch THEN after ELSE tx
  BY DEF FishermanReward
<1>2. reward \in Nat
  <2>1. FishermanFraction \in 0 .. Ether
    BY OperatorAssumption
  <2>2. reward \in 0 .. earnings
    BY <2>1, FractionIsPart
  <2> QED
    BY <2>2
<1> HIDE DEF reward, tooMuch
<1>3. /\ IsTx(slashed)
      /\ slashed.ok => /\ tx.ok /\ slashed.op \in Holdings /\ SameStakes(tx.op, slashed.op)
  BY <1>2, SlashSelfDelegationIs
<1> HIDE DEF slashed
<1>4. IsTx(able) /\ able.op = slashed.op /\ (able.ok => slashed.ok /\ enough)
  <2> HIDE DEF enough
  <2> QED
    BY <1>3 DEF Require, IsTx
<1> HIDE DEF able
<1>5. IsTx(sent) /\ sent.ok = able.ok /\ sent.op = [able.op EXCEPT !.balance = x]
  <2> HIDE DEF x
  <2> QED
    BY <1>4 DEF IsTx
<1>6. able.ok => tx.ok /\ sent.op \in Holdings /\ SameStakes(tx.op, sent.op)
  <2> SUFFICES ASSUME able.ok PROVE tx.ok /\ sent.op \in Holdings /\ SameStakes(tx.op, sent.op)
    OBVIOUS
  <2>1. tx.ok /\ able.op \in Holdings /\ SameStakes(tx.op, able.op) /\ x \in Nat
    BY <1>2, <1>3, <1>4 DEF Holdings
  <2> HIDE DEF x, sent
  <2>2. sent.op \in Holdings /\ SameStakes(able.op, sent.op)
    BY <1>5, <2>1, NewBalance
  <2> QED
    BY <2>1, <2>2 DEF SameStakes
<1> HIDE DEF sent, t
<1>7. IsTx(after) /\ after.op = sent.op /\ after.ok = sent.ok
  BY <1>5, ReportsKeep
<1> HIDE DEF after
<1>8. after.ok => tx.ok /\ after.op \in Holdings /\ SameStakes(tx.op, after.op)
  BY <1>5, <1>6, <1>7
<1>9. tx.ok => tx.op \in Holdings /\ SameStakes(tx.op, tx.op)
  BY DEF Sound, SameStakes
<1>10. CASE tooMuch
  BY <1>1, <1>7, <1>8, <1>10 DEF t
<1>11. CASE ~tooMuch
  BY <1>1, <1>9, <1>11 DEF Sound, t
<1> QED
  BY <1>10, <1>11

-----------------------------------------------------------------------------
(* The inductive invariant *)

StakesInv ==
    /\ op \in Holdings /\ StakesSound(op)
    /\ stakeAt \in [op.sponsorships -> Nat]
    /\ \A s \in op.sponsorships : stakeAt[s] = op.stakedInto[s] - op.slashedIn[s]

LEMMA StakesInvSuffices == StakesInv => StakesAgree
<1> SUFFICES ASSUME StakesInv PROVE StakesAgree
  OBVIOUS
<1>1. ValueOf(op) \in Nat
  BY StakeIsPart DEF StakesInv
<1>2. op.balance \in Nat
  BY DEF StakesInv, Holdings
<1> QED
  BY <1>1, <1>2 DEF StakesInv, StakesSound, StakesAgree

LEMMA InitStakesInv == Init => StakesInv
<1> SUFFICES ASSUME Init PROVE StakesInv
  OBVIOUS
<1>1. PICK cut \in Cuts : op = EmptyAccounts(cut)
  BY DEF Init
<1>2. cut \in 0 .. Ether
  BY BoundsAssumption
<1>3. op \in Holdings
  BY <1>1, <1>2 DEF EmptyAccounts, Holdings
<1>4. /\ op.stakedInto = [s \in Sponsorships |-> 0] /\ op.slashedIn = [s \in Sponsorships |-> 0]
      /\ op.totalStaked = 0 /\ op.totalSlashed = 0 /\ op.sponsorships = {}
  BY <1>1 DEF EmptyAccounts
<1> DEFINE f == [s \in Sponsorships |-> 0]
<1>5. IsFiniteSet(Sponsorships) /\ DOMAIN f = Sponsorships /\ \A s \in Sponsorships : f[s] = 0
  BY OperatorAssumption
<1> HIDE DEF f
<1>6. SumFunctionOnSet(f, Sponsorships) = 0
  BY <1>5, SumOfZeros
<1>7. SumFunction(f) = 0
  BY <1>5, <1>6, SumOverDomain
<1>8. StakesSound(op)
  <2>1. SumFunction(op.stakedInto) = 0 /\ SumFunction(op.slashedIn) = 0
    BY <1>4, <1>7 DEF f
  <2> QED
    BY <1>4, <2>1 DEF StakesSound
<1>9. stakeAt \in [op.sponsorships -> Nat]
  BY <1>4 DEF Init
<1> QED
  BY <1>3, <1>4, <1>8, <1>9 DEF StakesInv

\* A transaction starts from the accounts, perhaps with DATA that came in before.
LEMMA BeginIs ==
    ASSUME op \in Holdings
    PROVE  Sound(Begin(op)) /\ Begin(op).ok /\ Begin(op).op = op
  BY DEF Begin, Sound, IsTx

LEMMA WithIs ==
    ASSUME op \in Holdings, NEW data \in Nat
    PROVE  LET t == With(data)
           IN  /\ Sound(t) /\ t.ok /\ SameStakes(op, t.op)
               /\ t.op.balance = op.balance + data /\ t.op.tokens = op.tokens
<1> DEFINE b == Begin(op)
           x == b.op.balance + data
           t == With(data)
<1>1. t = [b EXCEPT !.op.balance = x]
  BY DEF With
<1>2. IsTx(b) /\ b.ok /\ b.op = op
  BY BeginIs DEF Sound
<1>3. x \in Nat /\ x = op.balance + data
  BY <1>2 DEF Holdings
<1> HIDE DEF b, x, t
<1>4. IsTx(t) /\ t.ok = b.ok /\ t.op = [b.op EXCEPT !.balance = x]
  BY <1>1, <1>2 DEF IsTx
<1>5. t.op \in Holdings /\ SameStakes(op, t.op) /\ t.op.balance = x /\ t.op.tokens = op.tokens
  BY <1>2, <1>3, <1>4, NewBalance
<1>6. t.ok
  BY <1>2, <1>4
<1> QED
  BY <1>3, <1>4, <1>5, <1>6 DEF Sound, t

\* Paying out the queue keeps the stakes.
LEMMA PayingKeepsStakes ==
    ASSUME NEW tx, Sound(tx), tx.ok => StakesSound(tx.op), NEW n \in Nat
    PROVE  LET t == PaidOutQueue(tx, n)
           IN  Sound(t) /\ (t.ok => tx.ok /\ SameStakes(tx.op, t.op))
<1>1. tx.ok => tx.op.totalSlashed <= tx.op.totalStaked
  BY StakeIsPart DEF Sound
<1>2. PaidFrom(tx, PaidOutQueue(tx, n))
  BY <1>1, PaidOutQueueIs
<1> QED
  BY <1>2 DEF PaidFrom

LEMMA MaybePayingKeepsStakes ==
    ASSUME NEW tx, Sound(tx), tx.ok => StakesSound(tx.op), NEW payOut
    PROVE  LET t == MaybePaidOut(tx, payOut)
           IN  Sound(t) /\ (t.ok => tx.ok /\ SameStakes(tx.op, t.op))
<1>1. CASE payOut
  BY <1>1, PayingKeepsStakes DEF MaybePaidOut
<1>2. CASE ~payOut
  BY <1>2 DEF MaybePaidOut, SameStakes
<1> QED
  BY <1>1, <1>2

LEMMA CommitIs ==
    ASSUME NEW tx, Commit(tx)
    PROVE  tx.ok /\ op' = tx.op
  BY DEF Commit

\* A step that is not about stakes
LEMMA StakesStay ==
    ASSUME StakesInv, op' \in Holdings, SameStakes(op, op'), stakeAt' = stakeAt
    PROVE  StakesInv'
<1>1. StakesSound(op')
  BY SameStakesAreSound DEF StakesInv
<1> QED
  BY <1>1 DEF StakesInv, SameStakes

\* The accounts and the Sponsorship forget the stake together.
LEMMA StakeGoes ==
    ASSUME StakesInv, NEW s \in DOMAIN stakeAt, op' \in Holdings, StakesSound(op'),
           op'.sponsorships = op.sponsorships \ {s},
           op'.stakedInto = [op.stakedInto EXCEPT ![s] = 0],
           op'.slashedIn = [op.slashedIn EXCEPT ![s] = 0],
           stakeAt' = StakeGone(s)
    PROVE  StakesInv'
<1>1. DOMAIN stakeAt = op.sponsorships /\ op.sponsorships \subseteq Sponsorships
  BY DEF StakesInv, Holdings
<1>2. stakeAt' \in [op'.sponsorships -> Nat]
  BY <1>1 DEF StakesInv, StakeGone
<1>3. ASSUME NEW r \in op'.sponsorships
      PROVE  stakeAt'[r] = op'.stakedInto[r] - op'.slashedIn[r]
  <2>1. r \in op.sponsorships /\ r # s /\ r \in Sponsorships
    BY <1>1
  <2>2. op'.stakedInto[r] = op.stakedInto[r] /\ op'.slashedIn[r] = op.slashedIn[r]
    BY <1>1, <2>1 DEF StakesInv, Holdings
  <2>3. stakeAt'[r] = stakeAt[r]
    BY <1>1, <2>1 DEF StakeGone
  <2> QED
    BY <2>1, <2>2, <2>3 DEF StakesInv
<1> QED
  BY <1>2, <1>3 DEF StakesInv

-----------------------------------------------------------------------------
(* Delegators *)

LEMMA DelegateKeepsStakes ==
    ASSUME StakesInv, NEW h \in Holders, NEW data \in DataAmounts, Delegate(h, data)
    PROVE  StakesInv'
<1>1. data \in Nat /\ op \in Holdings /\ StakesSound(op)
  BY BoundsAssumption DEF StakesInv
<1> DEFINE w == With(data)
           d == Delegated(w, h, data)
           t == PaidOutQueue(d, 0)
<1>2. Sound(w) /\ w.ok /\ SameStakes(op, w.op) /\ w.op.balance = op.balance + data
  BY <1>1, WithIs
<1>3. Commit(t) /\ stakeAt' = stakeAt
  BY DEF Delegate
<1> HIDE DEF w
<1>4. StakesSound(w.op) /\ w.op \in Holdings
  BY <1>1, <1>2, SameStakesAreSound DEF Sound
<1>5. data <= ValueOf(w.op)
  <2>1. ValueOf(w.op) \in Nat /\ ValueOf(w.op) >= w.op.balance
    BY <1>4, StakeIsPart
  <2>2. op.balance \in Nat
    BY <1>1 DEF Holdings
  <2> QED
    BY <1>1, <1>2, <2>1, <2>2
<1>6. IsTx(d) /\ (d.ok => d.op \in Holdings /\ SameStakes(w.op, d.op))
  BY <1>1, <1>2, <1>5, DelegatedIs
<1> HIDE DEF d
<1>7. Sound(d) /\ (d.ok => StakesSound(d.op))
  BY <1>4, <1>6, SameStakesAreSound DEF Sound
<1>8. Sound(t) /\ (t.ok => d.ok /\ SameStakes(d.op, t.op))
  BY <1>7, PayingKeepsStakes
<1> HIDE DEF t
<1>9. t.ok /\ op' = t.op
  BY <1>3, CommitIs
<1>10. op' \in Holdings /\ SameStakes(op, op')
  BY <1>2, <1>6, <1>8, <1>9 DEF Sound, SameStakes
<1> QED
  BY <1>3, <1>10, StakesStay

LEMMA UndelegateKeepsStakes ==
    ASSUME StakesInv, NEW h \in Holders, NEW data \in Undelegations, Undelegate(h, data)
    PROVE  StakesInv'
<1>1. data \in Nat /\ op \in Holdings /\ StakesSound(op)
  BY BoundsAssumption DEF StakesInv
<1> DEFINE b == Begin(op)
           q == Queued(b, h, data)
           t == PaidOutQueue(q, 0)
<1>2. Sound(b) /\ b.op = op
  BY <1>1, BeginIs
<1>3. Commit(t) /\ stakeAt' = stakeAt
  BY DEF Undelegate
<1> HIDE DEF b
<1>4. IsTx(q) /\ (q.ok => q.op \in Holdings /\ SameStakes(b.op, q.op))
  BY <1>1, <1>2, QueuedIs
<1> HIDE DEF q
<1>5. Sound(q) /\ (q.ok => StakesSound(q.op))
  BY <1>1, <1>2, <1>4, SameStakesAreSound DEF Sound
<1>6. Sound(t) /\ (t.ok => q.ok /\ SameStakes(q.op, t.op))
  BY <1>5, PayingKeepsStakes
<1> HIDE DEF t
<1>7. t.ok /\ op' = t.op
  BY <1>3, CommitIs
<1>8. op' \in Holdings /\ SameStakes(op, op')
  BY <1>2, <1>4, <1>6, <1>7 DEF Sound, SameStakes
<1> QED
  BY <1>3, <1>8, StakesStay

LEMMA TransferKeepsStakes ==
    ASSUME StakesInv, NEW from \in Holders, NEW to \in Holders, NEW tokens \in DataAmounts,
           Transfer(from, to, tokens)
    PROVE  StakesInv'
<1>1. tokens \in Nat /\ op \in Holdings
  BY BoundsAssumption DEF StakesInv
<1> DEFINE b == Begin(op)
           t == Transferred(b, from, to, tokens)
<1>2. Sound(b) /\ b.op = op
  BY <1>1, BeginIs
<1>3. Commit(t) /\ stakeAt' = stakeAt
  BY DEF Transfer
<1> HIDE DEF b
<1>4. t.ok => t.op \in Holdings /\ SameStakes(b.op, t.op)
  BY <1>1, <1>2, TransferredIs
<1> HIDE DEF t
<1>5. t.ok /\ op' = t.op
  BY <1>3, CommitIs
<1> QED
  BY <1>2, <1>3, <1>4, <1>5, StakesStay

LEMMA PayOutQueueKeepsStakes ==
    ASSUME StakesInv, NEW n \in Nat, PayOutQueue(n)
    PROVE  StakesInv'
<1>1. op \in Holdings /\ StakesSound(op)
  BY DEF StakesInv
<1> DEFINE b == Begin(op)
           t == PaidOutQueue(b, n)
<1>2. Sound(b) /\ b.op = op
  BY <1>1, BeginIs
<1>3. Commit(t) /\ stakeAt' = stakeAt
  BY DEF PayOutQueue
<1> HIDE DEF b
<1>4. Sound(t) /\ (t.ok => SameStakes(b.op, t.op))
  BY <1>1, <1>2, PayingKeepsStakes
<1> HIDE DEF t
<1>5. t.ok /\ op' = t.op
  BY <1>3, CommitIs
<1> QED
  BY <1>2, <1>3, <1>4, <1>5, StakesStay DEF Sound

LEMMA ReceiveUntoldKeepsStakes ==
    ASSUME StakesInv, NEW data \in EarningAmounts, ReceiveUntold(data)
    PROVE  StakesInv'
<1>1. data \in Nat /\ op \in Holdings
  BY BoundsAssumption DEF StakesInv
<1> DEFINE w == With(data)
<1>2. Sound(w) /\ SameStakes(op, w.op)
  BY <1>1, WithIs
<1>3. Commit(w) /\ stakeAt' = stakeAt
  BY DEF ReceiveUntold
<1> HIDE DEF w
<1>4. w.ok /\ op' = w.op
  BY <1>3, CommitIs
<1> QED
  BY <1>2, <1>3, <1>4, StakesStay DEF Sound

LEMMA FishAnotherKeepsStakes ==
    ASSUME StakesInv, NEW data \in EarningAmounts, FishAnother(data)
    PROVE  StakesInv'
<1>1. data \in Nat /\ op \in Holdings /\ StakesSound(op) /\ Owner \in Holders
  BY BoundsAssumption, OperatorAssumption DEF StakesInv
<1> DEFINE w == With(data)
           d == Delegated(w, Owner, data)
<1>2. Sound(w) /\ w.ok /\ SameStakes(op, w.op) /\ w.op.balance = op.balance + data
  BY <1>1, WithIs
<1>3. Commit(d) /\ stakeAt' = stakeAt
  BY DEF FishAnother
<1> HIDE DEF w
<1>4. StakesSound(w.op) /\ w.op \in Holdings
  BY <1>1, <1>2, SameStakesAreSound DEF Sound
<1>5. data <= ValueOf(w.op)
  <2>1. ValueOf(w.op) \in Nat /\ ValueOf(w.op) >= w.op.balance
    BY <1>4, StakeIsPart
  <2>2. op.balance \in Nat
    BY <1>1 DEF Holdings
  <2> QED
    BY <1>1, <1>2, <2>1, <2>2
<1>6. d.ok => d.op \in Holdings /\ SameStakes(w.op, d.op)
  BY <1>1, <1>2, <1>5, DelegatedIs
<1> HIDE DEF d
<1>7. d.ok /\ op' = d.op
  BY <1>3, CommitIs
<1>8. op' \in Holdings /\ SameStakes(op, op')
  BY <1>2, <1>6, <1>7 DEF SameStakes
<1> QED
  BY <1>3, <1>8, StakesStay

-----------------------------------------------------------------------------
(* The operator *)

LEMMA StakeIntoKeepsStakes ==
    ASSUME StakesInv, NEW s \in Sponsorships, NEW amount \in DataAmounts, StakeInto(s, amount)
    PROVE  StakesInv'
<1>1. amount \in Nat \ {0} /\ op \in Holdings /\ StakesSound(op)
  BY BoundsAssumption DEF StakesInv
<1> DEFINE b == Begin(op)
           t == Staked(b, s, amount)
<1>2. Sound(b) /\ b.op = op
  BY <1>1, BeginIs
<1>3. Commit(t)
      /\ stakeAt' = [r \in DOMAIN stakeAt \cup {s} |->
                       IF r # s THEN stakeAt[r]
                       ELSE amount + IF s \in DOMAIN stakeAt THEN stakeAt[s] ELSE 0]
  BY DEF StakeInto
<1> HIDE DEF b
<1>4. t.ok => /\ t.op \in Holdings /\ StakesSound(t.op)
              /\ t.op.sponsorships = op.sponsorships \cup {s}
              /\ t.op.stakedInto = [op.stakedInto EXCEPT ![s] = @ + amount]
              /\ t.op.slashedIn = op.slashedIn
  BY <1>1, <1>2, StakedIs
<1> HIDE DEF t
<1>5. t.ok /\ op' = t.op
  BY <1>3, CommitIs
<1>6. /\ op' \in Holdings /\ StakesSound(op')
      /\ op'.sponsorships = op.sponsorships \cup {s}
      /\ op'.stakedInto = [op.stakedInto EXCEPT ![s] = @ + amount]
      /\ op'.slashedIn = op.slashedIn
  BY <1>4, <1>5
<1>7. /\ DOMAIN stakeAt = op.sponsorships /\ op.sponsorships \subseteq Sponsorships
      /\ op.stakedInto \in [Sponsorships -> Int] /\ op.slashedIn \in [Sponsorships -> Int]
      /\ \A r \in op.sponsorships :
           stakeAt[r] \in Nat /\ stakeAt[r] = op.stakedInto[r] - op.slashedIn[r]
  BY <1>1 DEF StakesInv, Holdings
<1>8. s \notin op.sponsorships => op.stakedInto[s] = 0 /\ op.slashedIn[s] = 0
  BY <1>1, <1>7 DEF StakesSound
<1>9. ASSUME NEW r \in op'.sponsorships
      PROVE  stakeAt'[r] \in Nat /\ stakeAt'[r] = op'.stakedInto[r] - op'.slashedIn[r]
  <2>1. CASE r # s
    <3>1. r \in op.sponsorships /\ r \in Sponsorships
      BY <1>6, <1>7, <2>1
    <3>2. stakeAt'[r] = stakeAt[r] /\ op'.stakedInto[r] = op.stakedInto[r]
      BY <1>3, <1>6, <1>7, <2>1, <3>1
    <3> QED
      BY <1>6, <1>7, <3>1, <3>2
  <2>2. CASE r = s
    <3>1. op'.stakedInto[s] = op.stakedInto[s] + amount
      BY <1>6, <1>7
    <3>2. CASE s \in op.sponsorships
      <4>1. stakeAt'[s] = amount + stakeAt[s]
        BY <1>3, <1>7, <3>2
      <4> QED
        BY <1>1, <1>6, <1>7, <2>2, <3>1, <3>2, <4>1
    <3>3. CASE s \notin op.sponsorships
      <4>1. stakeAt'[s] = amount + 0
        BY <1>3, <1>7, <3>3
      <4> QED
        BY <1>1, <1>6, <1>8, <2>2, <3>1, <3>3, <4>1
    <3> QED
      BY <3>2, <3>3
  <2> QED
    BY <2>1, <2>2
<1>10. stakeAt' \in [op'.sponsorships -> Nat]
  <2>1. DOMAIN stakeAt' = op'.sponsorships
        /\ stakeAt' = [r \in op'.sponsorships |-> stakeAt'[r]]
    BY <1>3, <1>6, <1>7
  <2> QED
    BY <1>9, <2>1
<1> QED
  BY <1>6, <1>9, <1>10 DEF StakesInv

\* The stake in one Sponsorship becomes what the accounts say.
LEMMA StakeChanges ==
    ASSUME StakesInv, NEW s \in DOMAIN stakeAt, NEW stake \in Nat,
           op' \in Holdings, StakesSound(op'),
           op'.sponsorships = op.sponsorships,
           op'.stakedInto[s] - op'.slashedIn[s] = stake,
           \A r \in Sponsorships \ {s} : /\ op'.stakedInto[r] = op.stakedInto[r]
                                         /\ op'.slashedIn[r] = op.slashedIn[r],
           stakeAt' = StakeAfter(s, stake)
    PROVE  StakesInv'
<1>1. DOMAIN stakeAt = op.sponsorships /\ op.sponsorships \subseteq Sponsorships
  BY DEF StakesInv, Holdings
<1>2. stakeAt' \in [op'.sponsorships -> Nat]
  BY <1>1 DEF StakesInv, StakeAfter
<1>3. ASSUME NEW r \in op'.sponsorships
      PROVE  stakeAt'[r] = op'.stakedInto[r] - op'.slashedIn[r]
  <2>1. CASE r = s
    BY <1>1, <2>1 DEF StakesInv, StakeAfter
  <2>2. CASE r # s
    <3>1. stakeAt'[r] = stakeAt[r] /\ r \in Sponsorships \ {s} /\ r \in op.sponsorships
      BY <1>1, <2>2 DEF StakesInv, StakeAfter
    <3> QED
      BY <3>1 DEF StakesInv
  <2> QED
    BY <2>1, <2>2
<1> QED
  BY <1>2, <1>3 DEF StakesInv

\* What is known of a Sponsorship one is in
LEMMA JoinedIs ==
    ASSUME StakesInv, NEW s \in DOMAIN stakeAt
    PROVE  /\ s \in Sponsorships /\ s \in op.sponsorships
           /\ stakeAt[s] \in Nat /\ stakeAt[s] = op.stakedInto[s] - op.slashedIn[s]
           /\ op.stakedInto[s] \in Int /\ op.slashedIn[s] \in Int
           /\ op.stakedInto[s] > 0
           /\ op.stakedInto \in [Sponsorships -> Int] /\ op.slashedIn \in [Sponsorships -> Int]
<1>1. /\ s \in op.sponsorships /\ op.sponsorships \subseteq Sponsorships
      /\ op.stakedInto \in [Sponsorships -> Int] /\ op.slashedIn \in [Sponsorships -> Int]
      /\ stakeAt[s] \in Nat /\ stakeAt[s] = op.stakedInto[s] - op.slashedIn[s]
  BY DEF StakesInv, Holdings
<1>2. op.stakedInto[s] > 0
  BY <1>1 DEF StakesInv, StakesSound
<1> QED
  BY <1>1, <1>2

LEMMA ReduceStakeToKeepsStakes ==
    ASSUME StakesInv, NEW s \in DOMAIN stakeAt, NEW target \in DataAmounts, NEW payOut,
           ReduceStakeTo(s, target, payOut)
    PROVE  StakesInv'
<1>1. target \in Nat /\ op \in Holdings /\ StakesSound(op)
  BY BoundsAssumption DEF StakesInv
<1>2. /\ s \in Sponsorships /\ stakeAt[s] \in Nat
      /\ stakeAt[s] = op.stakedInto[s] - op.slashedIn[s]
      /\ op.stakedInto[s] \in Int /\ op.slashedIn[s] \in Int
      /\ op.stakedInto \in [Sponsorships -> Int] /\ op.slashedIn \in [Sponsorships -> Int]
  BY JoinedIs
<1> DEFINE b == Begin(op)
           cashout == stakeAt[s] - target
           r == StakeReduced(b, s, cashout)
           t == MaybePaidOut(r, payOut)
<1>3. Sound(b) /\ b.op = op
  BY <1>1, BeginIs
<1>4. Commit(t) /\ stakeAt' = StakeAfter(s, target) /\ 0 < target /\ target < stakeAt[s]
  BY DEF ReduceStakeTo
<1>5. cashout \in Nat /\ cashout < op.stakedInto[s] - op.slashedIn[s]
  BY <1>1, <1>2, <1>4
<1>6. cashout = stakeAt[s] - target
  OBVIOUS
<1> HIDE DEF b, cashout
<1>7. /\ IsTx(r)
      /\ r.ok => /\ r.op \in Holdings /\ StakesSound(r.op)
                 /\ r.op.sponsorships = op.sponsorships
                 /\ r.op.stakedInto = [op.stakedInto EXCEPT ![s] = @ - cashout]
                 /\ r.op.slashedIn = op.slashedIn
  BY <1>1, <1>2, <1>3, <1>5, StakeReducedIs
<1> HIDE DEF r
<1>8. Sound(t) /\ (t.ok => r.ok /\ SameStakes(r.op, t.op))
  BY <1>7, MaybePayingKeepsStakes DEF Sound
<1> HIDE DEF t
<1>9. t.ok /\ op' = t.op
  BY <1>4, CommitIs
<1>10. /\ op' \in Holdings /\ op'.sponsorships = op.sponsorships
       /\ op'.stakedInto = [op.stakedInto EXCEPT ![s] = @ - cashout]
       /\ op'.slashedIn = op.slashedIn
  BY <1>7, <1>8, <1>9 DEF Sound, SameStakes
<1>11. StakesSound(op')
  <2>1. StakesSound(r.op) /\ SameStakes(r.op, op')
    BY <1>7, <1>8, <1>9
  <2> QED
    BY <2>1, SameStakesAreSound
<1>12. op'.stakedInto[s] - op'.slashedIn[s] = target
  <2>1. op'.stakedInto[s] = op.stakedInto[s] - cashout
    BY <1>2, <1>10
  <2> QED
    BY <1>1, <1>2, <1>6, <1>10, <2>1
<1>13. \A q \in Sponsorships \ {s} : /\ op'.stakedInto[q] = op.stakedInto[q]
                                     /\ op'.slashedIn[q] = op.slashedIn[q]
  BY <1>2, <1>10
<1> QED
  BY <1>1, <1>4, <1>10, <1>11, <1>12, <1>13, StakeChanges

LEMMA UnstakeKeepsStakes ==
    ASSUME StakesInv, NEW s \in DOMAIN stakeAt, NEW earnings \in Nat, NEW payOut,
           Unstake(s, earnings, payOut)
    PROVE  StakesInv'
<1>1. op \in Holdings /\ StakesSound(op) /\ op.balance \in Nat
  BY DEF StakesInv, Holdings
<1>2. s \in Sponsorships /\ stakeAt[s] \in Nat
  BY JoinedIs
<1> DEFINE received == stakeAt[s] + earnings
           w == With(received)
           r == SponsorshipRemoved(w, s, received)
           t == MaybePaidOut(r, payOut)
<1>3. received \in Nat
  BY <1>2
<1>4. Commit(t) /\ stakeAt' = StakeGone(s)
  BY DEF Unstake
<1> HIDE DEF received
<1>5. Sound(w) /\ SameStakes(op, w.op) /\ w.op.balance = op.balance + received
  BY <1>1, <1>3, WithIs
<1> HIDE DEF w
<1>6. StakesSound(w.op) /\ received <= w.op.balance
  BY <1>1, <1>3, <1>5, SameStakesAreSound
<1>7. /\ IsTx(r)
      /\ r.ok => /\ r.op \in Holdings /\ StakesSound(r.op)
                 /\ r.op.sponsorships = w.op.sponsorships \ {s}
                 /\ r.op.stakedInto = [w.op.stakedInto EXCEPT ![s] = 0]
                 /\ r.op.slashedIn = [w.op.slashedIn EXCEPT ![s] = 0]
  BY <1>2, <1>3, <1>5, <1>6, SponsorshipRemovedIs
<1> HIDE DEF r
<1>8. Sound(t) /\ (t.ok => r.ok /\ SameStakes(r.op, t.op))
  BY <1>7, MaybePayingKeepsStakes DEF Sound
<1> HIDE DEF t
<1>9. t.ok /\ op' = t.op
  BY <1>4, CommitIs
<1>10. StakesSound(op')
  <2>1. StakesSound(r.op) /\ SameStakes(r.op, op')
    BY <1>7, <1>8, <1>9
  <2> QED
    BY <2>1, SameStakesAreSound
<1>11. /\ op' \in Holdings /\ op'.sponsorships = op.sponsorships \ {s}
       /\ op'.stakedInto = [op.stakedInto EXCEPT ![s] = 0]
       /\ op'.slashedIn = [op.slashedIn EXCEPT ![s] = 0]
  BY <1>5, <1>7, <1>8, <1>9 DEF Sound, SameStakes
<1> QED
  BY <1>4, <1>10, <1>11, StakeGoes

\* What is slashed from one who leaves, and then what is paid to it
LEMMA ReturnedIs ==
    ASSUME StakesInv, NEW s \in DOMAIN stakeAt, NEW losses \in LeaveSlashings(stakeAt[s]),
           NEW received \in Nat
    PROVE  LET slashed == SlashedBy(Begin(op), s, losses)
               t == [slashed EXCEPT !.op.balance = @ + received]
           IN  /\ Sound(t)
               /\ t.ok => /\ StakesSound(t.op) /\ received <= t.op.balance
                          /\ t.op.sponsorships = op.sponsorships
                          /\ t.op.stakedInto = op.stakedInto
                          /\ t.op.slashedIn = [op.slashedIn EXCEPT
                                                 ![s] = @ + losses.locked + losses.penalty]
<1>1. op \in Holdings /\ StakesSound(op)
  BY DEF StakesInv
<1>2. /\ s \in Sponsorships /\ s \in op.sponsorships
      /\ stakeAt[s] = op.stakedInto[s] - op.slashedIn[s]
  BY JoinedIs
<1>3. /\ losses \in [locked : Nat, penalty : Nat]
      /\ losses.locked + losses.penalty <= stakeAt[s]
  BY BoundsAssumption DEF LeaveSlashings
<1> DEFINE b == Begin(op)
           u == SlashedBy(b, s, losses)
           x == u.op.balance + received
           t == [u EXCEPT !.op.balance = x]
<1>4. Sound(b) /\ b.op = op
  BY <1>1, BeginIs
<1> HIDE DEF b
<1>5. /\ IsTx(u)
      /\ u.ok => /\ u.op \in Holdings /\ StakesSound(u.op)
                 /\ u.op.sponsorships = op.sponsorships
                 /\ u.op.stakedInto = op.stakedInto
                 /\ u.op.slashedIn = [op.slashedIn EXCEPT
                                        ![s] = @ + losses.locked + losses.penalty]
  BY <1>1, <1>2, <1>3, <1>4, SlashedByIs
<1> HIDE DEF u
<1>6. IsTx(t) /\ t.ok = u.ok /\ t.op = [u.op EXCEPT !.balance = x]
  <2> HIDE DEF x
  <2> QED
    BY <1>5 DEF IsTx
<1>7. ASSUME u.ok
      PROVE  /\ t.op \in Holdings /\ SameStakes(u.op, t.op) /\ received <= t.op.balance
             /\ StakesSound(t.op)
  <2>1. u.op.balance \in Nat /\ u.op \in Holdings /\ StakesSound(u.op)
    BY <1>5, <1>7 DEF Holdings
  <2>2. x \in Nat /\ received <= x
    BY <2>1
  <2> HIDE DEF x, t
  <2>3. t.op \in Holdings /\ t.op.balance = x /\ SameStakes(u.op, t.op)
    BY <1>6, <2>1, <2>2, NewBalance
  <2> QED
    BY <2>1, <2>2, <2>3, SameStakesAreSound
<1>8. [u EXCEPT !.op.balance = @ + received] = t
  OBVIOUS
<1> HIDE DEF t
<1>9. Sound(t)
  BY <1>6, <1>7 DEF Sound
<1>10. t.ok => /\ StakesSound(t.op) /\ received <= t.op.balance
               /\ t.op.sponsorships = op.sponsorships
               /\ t.op.stakedInto = op.stakedInto
               /\ t.op.slashedIn = [op.slashedIn EXCEPT
                                      ![s] = @ + losses.locked + losses.penalty]
  BY <1>5, <1>6, <1>7 DEF SameStakes
<1> QED
  BY <1>8, <1>9, <1>10 DEF u, b

LEMMA ForceUnstakeKeepsStakes ==
    ASSUME StakesInv, NEW s \in DOMAIN stakeAt, NEW losses \in LeaveSlashings(stakeAt[s]),
           NEW earnings \in Nat, NEW n \in Nat, ForceUnstake(s, losses, earnings, n)
    PROVE  StakesInv'
<1>1. s \in Sponsorships /\ stakeAt[s] \in Nat
  BY JoinedIs
<1>2. /\ losses.locked \in Nat /\ losses.penalty \in Nat
      /\ losses.locked + losses.penalty <= stakeAt[s]
  BY BoundsAssumption DEF LeaveSlashings
<1> DEFINE received == stakeAt[s] - (losses.locked + losses.penalty) + earnings
           u == [SlashedBy(Begin(op), s, losses) EXCEPT !.op.balance = @ + received]
           r == SponsorshipRemoved(u, s, received)
           t == PaidOutQueue(r, n)
<1>3. received \in Nat
  BY <1>1, <1>2
<1>4. Commit(t) /\ stakeAt' = StakeGone(s)
  BY DEF ForceUnstake
<1> HIDE DEF received
<1>5. /\ Sound(u)
      /\ u.ok => /\ StakesSound(u.op) /\ received <= u.op.balance
                 /\ u.op.sponsorships = op.sponsorships
                 /\ u.op.stakedInto = op.stakedInto
                 /\ u.op.slashedIn = [op.slashedIn EXCEPT
                                        ![s] = @ + losses.locked + losses.penalty]
  BY <1>3, ReturnedIs
<1> HIDE DEF u
<1>6. /\ IsTx(r)
      /\ r.ok => /\ u.ok /\ r.op \in Holdings /\ StakesSound(r.op)
                 /\ r.op.sponsorships = u.op.sponsorships \ {s}
                 /\ r.op.stakedInto = [u.op.stakedInto EXCEPT ![s] = 0]
                 /\ r.op.slashedIn = [u.op.slashedIn EXCEPT ![s] = 0]
  BY <1>1, <1>3, <1>5, SponsorshipRemovedIs
<1> HIDE DEF r
<1>7. Sound(t) /\ (t.ok => r.ok /\ SameStakes(r.op, t.op))
  BY <1>6, PayingKeepsStakes DEF Sound
<1> HIDE DEF t
<1>8. t.ok /\ op' = t.op
  BY <1>4, CommitIs
<1>9. StakesSound(op')
  <2>1. StakesSound(r.op) /\ SameStakes(r.op, op')
    BY <1>6, <1>7, <1>8
  <2> QED
    BY <2>1, SameStakesAreSound
<1>10. /\ op' \in Holdings /\ op'.sponsorships = op.sponsorships \ {s}
       /\ op'.stakedInto = [op.stakedInto EXCEPT ![s] = 0]
       /\ op'.slashedIn = [u.op.slashedIn EXCEPT ![s] = 0]
  BY <1>5, <1>6, <1>7, <1>8 DEF Sound, SameStakes
<1>11. op'.slashedIn = [op.slashedIn EXCEPT ![s] = 0]
  <2>1. u.op.slashedIn = [op.slashedIn EXCEPT ![s] = @ + losses.locked + losses.penalty]
        /\ op.slashedIn \in [Sponsorships -> Int]
    BY <1>5, <1>6, <1>7, <1>8, JoinedIs
  <2> QED
    BY <1>1, <1>10, <2>1
<1> QED
  BY <1>4, <1>9, <1>10, <1>11, StakeGoes

LEMMA WithdrawEarningsKeepsStakes ==
    ASSUME StakesInv, NEW earnings \in EarningAmounts, NEW outsider, NEW payOut,
           WithdrawEarnings(earnings, outsider, payOut)
    PROVE  StakesInv'
<1>1. earnings \in Nat /\ op \in Holdings /\ StakesSound(op)
  BY BoundsAssumption DEF StakesInv
<1> DEFINE w == With(earnings)
           e == EarningsSplit(w, earnings)
           before == ValueOf(op)
           f == FishermanReward(e, before, earnings)
           r == IF outsider THEN f ELSE e
           t == MaybePaidOut(r, payOut)
<1>2. Commit(t) /\ stakeAt' = stakeAt
  BY DEF WithdrawEarnings
<1>3. Sound(w) /\ w.ok /\ SameStakes(op, w.op) /\ w.op.balance = op.balance + earnings
  BY <1>1, WithIs
<1> HIDE DEF w, before
<1>4. StakesSound(w.op) /\ w.op \in Holdings
  BY <1>1, <1>3, SameStakesAreSound DEF Sound
<1>5. earnings <= w.op.balance /\ w.op.totalSlashed <= w.op.totalStaked
  <2>1. w.op.totalSlashed <= w.op.totalStaked
    BY <1>4, StakeIsPart
  <2>2. op.balance \in Nat
    BY <1>1 DEF Holdings
  <2> QED
    BY <1>1, <1>3, <2>1, <2>2
<1>6. IsTx(e) /\ (e.ok => e.op \in Holdings /\ SameStakes(w.op, e.op))
  BY <1>1, <1>3, <1>5, EarningsSplitIs
<1> HIDE DEF e
<1>7. Sound(e) /\ (e.ok => StakesSound(e.op))
  BY <1>4, <1>6, SameStakesAreSound DEF Sound
<1>8. e.ok => ValueOf(e.op) >= 0
  <2> SUFFICES ASSUME e.ok PROVE ValueOf(e.op) >= 0
    OBVIOUS
  <2>1. ValueOf(e.op) \in Nat
    BY <1>6, <1>7, StakeIsPart
  <2> QED
    BY <2>1
<1>9. IsTx(f) /\ (f.ok => e.ok /\ f.op \in Holdings /\ SameStakes(e.op, f.op))
  BY <1>1, <1>7, <1>8, FishermanRewardIs
<1> HIDE DEF f
<1>10. IsTx(r) /\ (r.ok => r.op \in Holdings /\ SameStakes(op, r.op))
  <2>1. CASE outsider
    <3>1. r = f
      BY <2>1
    <3> HIDE DEF r
    <3> QED
      BY <1>3, <1>6, <1>9, <3>1 DEF SameStakes
  <2>2. CASE ~outsider
    <3>1. r = e
      BY <2>2
    <3> HIDE DEF r
    <3> QED
      BY <1>3, <1>6, <3>1 DEF SameStakes
  <2> QED
    BY <2>1, <2>2
<1> HIDE DEF r
<1>11. Sound(r) /\ (r.ok => StakesSound(r.op))
  BY <1>1, <1>10, SameStakesAreSound DEF Sound
<1>12. Sound(t) /\ (t.ok => r.ok /\ SameStakes(r.op, t.op))
  BY <1>11, MaybePayingKeepsStakes
<1> HIDE DEF t
<1>13. t.ok /\ op' = t.op
  BY <1>2, CommitIs
<1>14. op' \in Holdings /\ SameStakes(op, op')
  BY <1>10, <1>12, <1>13 DEF Sound, SameStakes
<1> QED
  BY <1>2, <1>14, StakesStay

LEMMA NewCut ==
    ASSUME NEW a \in Holdings, NEW x \in 0 .. Ether
    PROVE  LET b == [a EXCEPT !.cut = x]
           IN  b \in Holdings /\ SameStakes(a, b)
  BY DEF Holdings, SameStakes

LEMMA UpdateCutKeepsStakes ==
    ASSUME StakesInv, NEW cut \in Cuts, UpdateCut(cut)
    PROVE  StakesInv'
<1>1. op \in Holdings /\ cut \in 0 .. Ether
  BY BoundsAssumption DEF StakesInv
<1>2. op' = [op EXCEPT !.cut = cut] /\ stakeAt' = stakeAt
  BY DEF UpdateCut
<1>3. op' \in Holdings /\ SameStakes(op, op')
  BY <1>1, <1>2, NewCut
<1> QED
  BY <1>2, <1>3, StakesStay

-----------------------------------------------------------------------------
(* The Sponsorships *)

LEMMA SlashedInSponsorshipKeepsStakes ==
    ASSUME StakesInv, NEW s \in DOMAIN stakeAt, NEW amount \in SlashAmounts,
           SlashedInSponsorship(s, amount)
    PROVE  StakesInv'
<1>1. amount \in Nat \ {0} /\ op \in Holdings /\ StakesSound(op)
  BY BoundsAssumption DEF StakesInv
<1>2. /\ s \in Sponsorships /\ s \in op.sponsorships /\ stakeAt[s] \in Nat
      /\ stakeAt[s] = op.stakedInto[s] - op.slashedIn[s]
      /\ op.stakedInto[s] \in Int /\ op.slashedIn[s] \in Int
      /\ op.stakedInto \in [Sponsorships -> Int] /\ op.slashedIn \in [Sponsorships -> Int]
  BY JoinedIs
<1> DEFINE b == Begin(op)
           t == OnSlash(b, s, amount)
           rest == stakeAt[s] - amount
<1>3. Sound(b) /\ b.op = op
  BY <1>1, BeginIs
<1>4. Commit(t) /\ stakeAt' = StakeAfter(s, rest) /\ amount <= stakeAt[s]
  BY DEF SlashedInSponsorship
<1>5. rest \in Nat
  BY <1>1, <1>2, <1>4
<1> HIDE DEF b
<1>6. t.ok => /\ t.op \in Holdings /\ StakesSound(t.op)
              /\ t.op.sponsorships = op.sponsorships
              /\ t.op.stakedInto = op.stakedInto
              /\ t.op.slashedIn = [op.slashedIn EXCEPT ![s] = @ + amount]
  BY <1>1, <1>2, <1>3, <1>4, OnSlashIs
<1> HIDE DEF t
<1>7. t.ok /\ op' = t.op
  BY <1>4, CommitIs
<1>8. /\ op' \in Holdings /\ StakesSound(op') /\ op'.sponsorships = op.sponsorships
      /\ op'.stakedInto = op.stakedInto
      /\ op'.slashedIn = [op.slashedIn EXCEPT ![s] = @ + amount]
  BY <1>6, <1>7
<1>9. op'.stakedInto[s] - op'.slashedIn[s] = rest
  <2>1. op'.slashedIn[s] = op.slashedIn[s] + amount
    BY <1>2, <1>8
  <2> QED
    BY <1>1, <1>2, <1>8, <2>1
<1>10. \A r \in Sponsorships \ {s} : /\ op'.stakedInto[r] = op.stakedInto[r]
                                     /\ op'.slashedIn[r] = op.slashedIn[r]
  BY <1>2, <1>8
<1> HIDE DEF rest
<1> QED
  BY <1>4, <1>5, <1>8, <1>9, <1>10, StakeChanges

LEMMA KickedOutKeepsStakes ==
    ASSUME StakesInv, NEW s \in DOMAIN stakeAt, NEW amount \in Nat,
           NEW losses \in LeaveSlashings(stakeAt[s]), NEW earnings \in Nat,
           KickedOut(s, amount, losses, earnings)
    PROVE  StakesInv'
<1>1. /\ s \in Sponsorships /\ s \in op.sponsorships /\ stakeAt[s] \in Nat
      /\ stakeAt[s] = op.stakedInto[s] - op.slashedIn[s]
      /\ op.stakedInto[s] \in Int /\ op.slashedIn[s] \in Int
      /\ op.slashedIn \in [Sponsorships -> Int]
  BY JoinedIs
<1>2. losses.locked \in Nat /\ losses.penalty \in Nat
  BY BoundsAssumption DEF LeaveSlashings
<1> DEFINE received == stakeAt[s] - amount - (losses.locked + losses.penalty) + earnings
           u == [SlashedBy(Begin(op), s, losses) EXCEPT !.op.balance = @ + received]
           t == OnKick(u, s, amount, received)
<1>3. /\ Commit(t) /\ stakeAt' = StakeGone(s)
      /\ stakeAt[s] - amount >= losses.locked + losses.penalty
  BY DEF KickedOut
<1>4. received \in Nat
  BY <1>1, <1>2, <1>3
<1> HIDE DEF received
<1>5. /\ Sound(u)
      /\ u.ok => /\ StakesSound(u.op) /\ received <= u.op.balance
                 /\ u.op.sponsorships = op.sponsorships
                 /\ u.op.stakedInto = op.stakedInto
                 /\ u.op.slashedIn = [op.slashedIn EXCEPT
                                        ![s] = @ + losses.locked + losses.penalty]
  BY <1>4, ReturnedIs
<1> HIDE DEF u
<1>6. u.ok => s \in u.op.sponsorships /\ amount <= u.op.stakedInto[s] - u.op.slashedIn[s]
  <2> SUFFICES ASSUME u.ok
               PROVE  s \in u.op.sponsorships /\ amount <= u.op.stakedInto[s] - u.op.slashedIn[s]
    OBVIOUS
  <2>1. u.op.slashedIn[s] = op.slashedIn[s] + losses.locked + losses.penalty
    BY <1>1, <1>5
  <2> QED
    BY <1>1, <1>2, <1>3, <1>5, <2>1
<1>7. /\ Sound(u) /\ s \in Sponsorships
      /\ u.ok => /\ StakesSound(u.op) /\ s \in u.op.sponsorships
                 /\ received <= u.op.balance
                 /\ amount <= u.op.stakedInto[s] - u.op.slashedIn[s]
  BY <1>1, <1>5, <1>6
<1> HIDE DEF t
<1>8. /\ IsTx(t) /\ t.ok = u.ok
      /\ t.ok => /\ t.op \in Holdings /\ StakesSound(t.op)
                 /\ t.op.sponsorships = u.op.sponsorships \ {s}
                 /\ t.op.stakedInto = [u.op.stakedInto EXCEPT ![s] = 0]
                 /\ t.op.slashedIn = [u.op.slashedIn EXCEPT ![s] = 0]
  BY <1>4, <1>7, OnKickIs DEF t
<1>9. t.ok /\ u.ok /\ op' = t.op
  BY <1>3, <1>8, CommitIs
<1>10. /\ op' \in Holdings /\ StakesSound(op') /\ op'.sponsorships = op.sponsorships \ {s}
       /\ op'.stakedInto = [op.stakedInto EXCEPT ![s] = 0]
       /\ op'.slashedIn = [u.op.slashedIn EXCEPT ![s] = 0]
       /\ u.op.slashedIn = [op.slashedIn EXCEPT ![s] = @ + losses.locked + losses.penalty]
  BY <1>5, <1>8, <1>9
<1>11. op'.slashedIn = [op.slashedIn EXCEPT ![s] = 0]
  BY <1>1, <1>10
<1> QED
  BY <1>3, <1>10, <1>11, StakeGoes

LEMMA NextStakesInv == StakesInv /\ [Next]_vars => StakesInv'
<1> SUFFICES ASSUME StakesInv, [Next]_vars PROVE StakesInv'
  OBVIOUS
<1>1. EarningsOrNone \subseteq Nat /\ SlashAmounts \cup {0} \subseteq Nat /\ {0, 1} \subseteq Nat
  BY BoundsAssumption DEF EarningsOrNone
<1>2. ASSUME NEW h \in Holders, NEW data \in DataAmounts, Delegate(h, data) PROVE StakesInv'
  BY <1>2, DelegateKeepsStakes
<1>3. ASSUME NEW h \in Holders, NEW data \in Undelegations, Undelegate(h, data) PROVE StakesInv'
  BY <1>3, UndelegateKeepsStakes
<1>4. ASSUME NEW from \in Holders, NEW to \in Holders, NEW tokens \in DataAmounts,
             Transfer(from, to, tokens)
      PROVE  StakesInv'
  BY <1>4, TransferKeepsStakes
<1>5. ASSUME NEW n \in {0, 1}, PayOutQueue(n) PROVE StakesInv'
  BY <1>1, <1>5, PayOutQueueKeepsStakes
<1>6. ASSUME NEW data \in EarningAmounts, ReceiveUntold(data) PROVE StakesInv'
  BY <1>6, ReceiveUntoldKeepsStakes
<1>7. ASSUME NEW data \in EarningAmounts, FishAnother(data) PROVE StakesInv'
  BY <1>7, FishAnotherKeepsStakes
<1>8. ASSUME NEW s \in Sponsorships, NEW amount \in DataAmounts, StakeInto(s, amount)
      PROVE  StakesInv'
  BY <1>8, StakeIntoKeepsStakes
<1>9. ASSUME NEW s \in DOMAIN stakeAt, NEW target \in DataAmounts, NEW payOut \in BOOLEAN,
             ReduceStakeTo(s, target, payOut)
      PROVE  StakesInv'
  BY <1>9, ReduceStakeToKeepsStakes
<1>10. ASSUME NEW s \in DOMAIN stakeAt, NEW earnings \in EarningsOrNone, NEW payOut \in BOOLEAN,
              Unstake(s, earnings, payOut)
       PROVE  StakesInv'
  BY <1>1, <1>10, UnstakeKeepsStakes
<1>11. ASSUME NEW s \in DOMAIN stakeAt, NEW losses \in LeaveSlashings(stakeAt[s]),
              NEW earnings \in EarningsOrNone, NEW n \in {0, 1},
              ForceUnstake(s, losses, earnings, n)
       PROVE  StakesInv'
  BY <1>1, <1>11, ForceUnstakeKeepsStakes
<1>12. ASSUME NEW earnings \in EarningAmounts, NEW outsider \in BOOLEAN, NEW payOut \in BOOLEAN,
              WithdrawEarnings(earnings, outsider, payOut)
       PROVE  StakesInv'
  BY <1>12, WithdrawEarningsKeepsStakes
<1>13. ASSUME NEW cut \in Cuts, UpdateCut(cut) PROVE StakesInv'
  BY <1>13, UpdateCutKeepsStakes
<1>14. ASSUME NEW s \in DOMAIN stakeAt, NEW amount \in SlashAmounts,
              SlashedInSponsorship(s, amount)
       PROVE  StakesInv'
  BY <1>14, SlashedInSponsorshipKeepsStakes
<1>15. ASSUME NEW s \in DOMAIN stakeAt, NEW amount \in SlashAmounts \cup {0},
              NEW losses \in LeaveSlashings(stakeAt[s]), NEW earnings \in EarningsOrNone,
              KickedOut(s, amount, losses, earnings)
       PROVE  StakesInv'
  BY <1>1, <1>15, KickedOutKeepsStakes
<1>16. ASSUME NextDay PROVE StakesInv'
  BY <1>16 DEF NextDay, StakesInv
<1>17. ASSUME UNCHANGED vars PROVE StakesInv'
  BY <1>17 DEF vars, StakesInv
<1> QED
  BY <1>2, <1>3, <1>4, <1>5, <1>6, <1>7, <1>8, <1>9, <1>10, <1>11, <1>12, <1>13, <1>14,
     <1>15, <1>16, <1>17 DEF Next

\* The stakes an Operator accounts for are at all times the ones the Sponsorships
\* hold for it: no callback of a slashing or a kick is lost, although each is made in
\* a try whose failure is ignored, the totals are the sums, and the DATA never runs
\* below zero.
THEOREM OperatorStakesAlwaysAgree == Spec => []StakesAgree
<1>1. Init => StakesInv
  BY InitStakesInv
<1>2. StakesInv /\ [Next]_vars => StakesInv'
  BY NextStakesInv
<1>3. StakesInv => StakesAgree
  BY StakesInvSuffices
<1> QED
  BY <1>1, <1>2, <1>3, PTL DEF Spec

\* The same of the contract as a whole
LEMMA StakesOfContract == ContractSpec => []StakesAgree
<1>1. ContractInit => StakesInv
  BY InitStakesInv DEF ContractInit
<1>2. StakesInv /\ [ContractNext]_contractVars => StakesInv'
  <2> SUFFICES ASSUME StakesInv, [ContractNext]_contractVars PROVE StakesInv'
    OBVIOUS
  <2>1. [Next]_vars
    BY DEF ContractNext, contractVars
  <2> QED
    BY <2>1, NextStakesInv
<1>3. StakesInv => StakesAgree
  BY StakesInvSuffices
<1> QED
  BY <1>1, <1>2, <1>3, PTL DEF ContractSpec

-----------------------------------------------------------------------------
(* Paying out the queue *)

LEMMA QuotientIs ==
    ASSUME NEW x \in Nat, NEW d \in Nat \ {0}
    PROVE  /\ x \div d \in Nat
           /\ d * (x \div d) <= x
           /\ x < d * (x \div d) + d
<1> DEFINE q == x \div d
           r == x % d
<1>1. q \in Int /\ r \in Int /\ x = d * q + r /\ 0 <= r /\ r < d
  OBVIOUS
<1>2. q \in Nat
  BY QuotientIsNat
<1> HIDE DEF q, r
<1>3. d * q \in Int
  BY <1>1
<1> QED
  BY <1>1, <1>2, <1>3 DEF q

\* A bound on what is divided bounds the quotient.
LEMMA QuotientBelow ==
    ASSUME NEW x \in Nat, NEW d \in Nat \ {0}, NEW k \in Nat, x < d * k + d
    PROVE  x \div d <= k
<1> DEFINE q == x \div d
<1>1. q \in Nat /\ d * q <= x
  BY QuotientIs
<1> HIDE DEF q
<1>2. d * q < d * k + d
  BY <1>1
<1>3. d * q < d * (k + 1)
  BY <1>1, <1>2
<1>4. ASSUME q > k PROVE FALSE
  <2>1. q >= k + 1
    BY <1>1, <1>4
  <2>2. d * q >= d * (k + 1)
    BY <1>1, <2>1
  <2> QED
    BY <1>1, <1>3, <2>2
<1> QED
  BY <1>1, <1>4 DEF q

\* Fewer tokens are needed for less DATA.
LEMMA FewerTokensForLess ==
    ASSUME NEW a \in Holdings, ValueOf(a) >= 0, NEW x \in Nat, NEW y \in Nat, x <= y
    PROVE  TokensForData(a, x) <= TokensForData(a, y)
<1> DEFINE supply == Supply(a)
           value == ValueOf(a)
<1>1. supply \in Nat /\ value \in Nat
  BY SupplyIsNat, ConversionsAreNat
<1>2. CASE value = 0
  BY <1>2 DEF TokensForData
<1>3. CASE value # 0
  <2> DEFINE m == x * supply + value - 1
             n == y * supply + value - 1
             k == n \div value
  <2>1. TokensForData(a, x) = m \div value /\ TokensForData(a, y) = n \div value
    BY <1>3 DEF TokensForData
  <2> HIDE DEF supply, value
  <2>2. x * supply \in Nat /\ y * supply \in Nat /\ x * supply <= y * supply
    BY <1>1
  <2>3. m \in Nat /\ n \in Nat /\ m <= n /\ value \in Nat \ {0}
    BY <1>1, <1>3, <2>2
  <2> HIDE DEF m, n
  <2>4. k \in Nat /\ n < value * k + value
    BY <2>3, QuotientIs
  <2> HIDE DEF k
  <2>5. m < value * k + value
    <3>1. value * k \in Int
      BY <2>3, <2>4
    <3> QED
      BY <2>3, <2>4, <3>1
  <2>6. m \div value <= k
    BY <2>3, <2>4, <2>5, QuotientBelow
  <2> QED
    BY <2>1, <2>6 DEF k
<1> QED
  BY <1>2, <1>3

\* What so many tokens are worth needs no more tokens.
LEMMA WorthOfTokens ==
    ASSUME NEW a \in Holdings, ValueOf(a) >= 0, NEW held \in Nat, NEW x \in Nat,
           x <= TokensToData(a, held)
    PROVE  TokensForData(a, x) <= held
<1> DEFINE supply == Supply(a)
           value == ValueOf(a)
           worth == TokensToData(a, held)
<1>1. supply \in Nat /\ value \in Nat /\ worth \in Nat
  BY SupplyIsNat, ConversionsAreNat
<1>2. CASE value = 0
  BY <1>2 DEF TokensForData
<1>3. CASE value # 0
  <2> DEFINE m == x * supply + value - 1
  <2>1. TokensForData(a, x) = m \div value
    BY <1>3 DEF TokensForData
  <2>2. supply * worth <= held * value
    <3>1. CASE supply = 0
      BY <1>1, <3>1
    <3>2. CASE supply # 0
      <4> DEFINE y == held * value
      <4>1. worth = y \div supply
        BY <3>2 DEF TokensToData
      <4> HIDE DEF supply, value, worth
      <4>2. y \in Nat /\ supply \in Nat \ {0}
        BY <1>1, <3>2
      <4> HIDE DEF y
      <4>3. supply * (y \div supply) <= y
        BY <4>2, QuotientIs
      <4> QED
        BY <4>1, <4>3 DEF y
    <3> QED
      BY <3>1, <3>2
  <2>3. x <= worth
    OBVIOUS
  <2> HIDE DEF supply, value, worth
  <2>4. x * supply \in Nat /\ x * supply <= supply * worth
    BY <1>1, <2>3
  <2>5. held * value \in Nat /\ value * held = held * value /\ supply * worth \in Nat
    BY <1>1
  <2>6. m \in Nat /\ value \in Nat \ {0} /\ m < value * held + value
    BY <1>1, <1>3, <2>2, <2>4, <2>5
  <2> HIDE DEF m
  <2>7. m \div value <= held
    BY <2>6, QuotientBelow
  <2> QED
    BY <2>1, <2>7
<1> QED
  BY <1>2, <1>3

\* No more tokens are burned than the delegator holds, whether all that is due is
\* paid or only a part of it.
LEMMA DueIsHeld ==
    ASSUME NEW a \in Holdings, ValueOf(a) >= 0, a.queue # <<>>
    PROVE  LET held == a.tokens[Head(a.queue).delegator]
           IN  /\ Due(a).tokens <= held
               /\ \A x \in Nat : x <= Due(a).data => TokensForData(a, x) <= held
<1> DEFINE entry == Head(a.queue)
           asked == AtMost(entry.amount, ValueOf(a))
           held == a.tokens[entry.delegator]
           needed == TokensForData(a, asked)
<1>1. entry \in Entries
  BY DEF Holdings
<1>2. entry.amount \in Nat /\ entry.delegator \in Holders
  BY <1>1 DEF Entries
<1> HIDE DEF entry
<1>3. ValueOf(a) \in Nat
  BY ConversionsAreNat
<1>4. asked \in Nat
  BY <1>2, <1>3 DEF AtMost
<1>5. held \in Nat /\ MinimumDelegation \in Nat
  BY <1>2, OperatorAssumption DEF Holdings
<1> HIDE DEF asked
<1>6. needed \in Nat
  BY <1>4, ConversionsAreNat
<1> HIDE DEF held, needed
<1>7. CASE held < needed + MinimumDelegation
  <2>1. Due(a) = [tokens |-> held, data |-> TokensToData(a, held)]
    BY <1>7 DEF Due, entry, asked, held, needed
  <2>2. \A x \in Nat : x <= TokensToData(a, held) => TokensForData(a, x) <= held
    BY <1>5, WorthOfTokens
  <2> QED
    BY <1>5, <2>1, <2>2 DEF held, entry
<1>8. CASE ~(held < needed + MinimumDelegation)
  <2>1. Due(a) = [tokens |-> needed, data |-> asked]
    BY <1>8 DEF Due, entry, asked, held, needed
  <2>2. needed <= held
    BY <1>5, <1>6, <1>8
  <2>3. ASSUME NEW x \in Nat, x <= asked PROVE TokensForData(a, x) <= held
    <3>1. TokensForData(a, x) <= needed
      BY <1>4, <2>3, FewerTokensForLess DEF needed
    <3>2. TokensForData(a, x) \in Nat
      BY ConversionsAreNat
    <3> QED
      BY <1>5, <1>6, <2>2, <3>1, <3>2
  <2> QED
    BY <2>1, <2>2, <2>3 DEF held, entry
<1> QED
  BY <1>7, <1>8

\* Paying the first entry fails only for want of DATA that the entry did not ask for.
LEMMA FirstIsPaid ==
    ASSUME NEW tx, IsTx(tx), tx.ok, tx.op \in Holdings, tx.op.queue # <<>>,
           tx.op.totalSlashed <= tx.op.totalStaked,
           ~PaidFirstInQueue(tx).ok
    PROVE  Head(tx.op.queue).amount < tx.op.balance /\ tx.op.balance < Due(tx.op).data
<1> DEFINE entry == Head(tx.op.queue)
           due == Due(tx.op)
           all == tx.op.balance
           left == entry.amount - all
           able == Require(tx, left >= 0)
           changed == [able EXCEPT !.op.queue[1].amount = left]
           partly == QueueUpdated(changed, QueueIndex(tx.op), left)
           tokens == TokensForData(tx.op, all)
           held == tx.op.tokens[entry.delegator]
           t == PaidFirstInQueue(tx)
<1>1. ValueOf(tx.op) >= 0 /\ all \in Nat /\ tx.op.queue \in Seq(Entries)
  BY DEF Holdings, ValueOf
<1>2. entry \in Entries /\ due.tokens \in Nat /\ due.data \in Nat /\ tokens \in Nat
  BY <1>1, DueIsNat, ConversionsAreNat
<1>3. entry.amount \in Nat /\ entry.delegator \in Holders
      /\ entry = [delegator |-> entry.delegator, amount |-> entry.amount]
  BY <1>2 DEF Entries
<1>4. due.tokens <= held /\ (all <= due.data => tokens <= held)
  BY <1>1, DueIsHeld
<1>5. ~(due.data = 0 \/ due.tokens = 0)
  <2> SUFFICES ASSUME due.data = 0 \/ due.tokens = 0 PROVE FALSE
    OBVIOUS
  <2>1. t = PopQueue(tx)
    BY DEF PaidFirstInQueue
  <2>2. PopQueue(tx).ok
    BY PopQueueIs DEF Sound
  <2> QED
    BY <2>1, <2>2
<1>6. ~(all >= due.data)
  <2> SUFFICES ASSUME all >= due.data PROVE FALSE
    OBVIOUS
  <2> DEFINE popped == PopQueue(tx)
  <2>1. t = PaidTo(popped, entry.delegator, due.tokens, due.data)
    BY <1>5 DEF PaidFirstInQueue
  <2>2. /\ IsTx(popped) /\ popped.ok /\ popped.op \in Holdings
        /\ popped.op.balance = all /\ popped.op.tokens = tx.op.tokens
    BY PopQueueIs DEF Sound
  <2>3. due.tokens <= popped.op.tokens[entry.delegator]
    BY <1>4, <2>2
  <2> HIDE DEF popped, due, entry, all
  <2>4. Sound(popped) /\ due.data <= popped.op.balance
    BY <1>1, <1>2, <2>2 DEF Sound
  <2>5. t.ok
    BY <1>2, <1>3, <2>1, <2>2, <2>3, <2>4, PaidToIs
  <2> QED
    BY <2>5
<1>7. ~(left >= 0)
  <2> SUFFICES ASSUME left >= 0 PROVE FALSE
    OBVIOUS
  <2>1. t = PaidTo(partly, entry.delegator, tokens, all)
    BY <1>5, <1>6 DEF PaidFirstInQueue
  <2>2. IsTx(able) /\ able.op = tx.op
    BY DEF Require
  <2>10. able.ok
    BY DEF Require
  <2> HIDE DEF able, due, tokens
  <2> DEFINE queue == [tx.op.queue EXCEPT ![1] = [tx.op.queue[1] EXCEPT !.amount = left]]
  <2>3. IsTx(changed) /\ changed.ok = able.ok /\ changed.op = [tx.op EXCEPT !.queue = queue]
    <3> HIDE DEF left
    <3> QED
      BY <2>2 DEF IsTx
  <2> HIDE DEF changed
  <2>4. left \in Nat
    <3> HIDE DEF entry, all
    <3> QED
      BY <1>1, <1>3
  <2>5. /\ changed.op \in Holdings /\ changed.op.balance = all
        /\ changed.op.tokens = tx.op.tokens
    <3>1. entry = tx.op.queue[1]
      BY <1>1
    <3> HIDE DEF left, entry
    <3> DEFINE first == [tx.op.queue[1] EXCEPT !.amount = left]
    <3>2. first = [delegator |-> entry.delegator, amount |-> left]
      BY <1>3, <3>1
    <3>3. first \in Entries
      BY <1>3, <2>4, <3>2 DEF Entries
    <3> HIDE DEF first
    <3>4. Len(tx.op.queue) \in Nat /\ 1 \in 1 .. Len(tx.op.queue)
      BY <1>1
    <3>5. [tx.op.queue EXCEPT ![1] = first] \in Seq(Entries)
      BY <1>1, <3>3, <3>4, ExceptSeq
    <3>6. queue \in Seq(Entries)
      BY <3>5 DEF first
    <3> HIDE DEF queue
    <3> QED
      BY <2>3, <3>6, NewQueue
  <2> HIDE DEF left
  <2>6. IsTx(partly) /\ partly.op = changed.op /\ partly.ok = able.ok
    BY <2>3, QueueReportKeeps
  <2> HIDE DEF partly
  <2>7. Sound(partly) /\ partly.ok /\ all <= partly.op.balance
    BY <1>1, <2>10, <2>3, <2>5, <2>6 DEF Sound
  <2>8. tokens <= partly.op.tokens[entry.delegator]
    <3>1. all <= due.data
      <4> HIDE DEF all
      <4> QED
        BY <1>1, <1>2, <1>6
    <3> QED
      BY <1>4, <2>5, <2>6, <3>1
  <2> HIDE DEF all, entry
  <2>9. t.ok
    BY <1>1, <1>2, <1>3, <2>1, <2>7, <2>8, PaidToIs
  <2> QED
    BY <2>9
<1> HIDE DEF entry, due, all
<1>8. entry.amount < all /\ all < due.data
  BY <1>1, <1>2, <1>3, <1>6, <1>7
<1> QED
  BY <1>8 DEF entry, due, all

\* One step of payOutQueue is the payment of the first entry.
LEMMA OneRound ==
    ASSUME NEW tx, Sound(tx), tx.ok, tx.op.queue # <<>>
    PROVE  PaidOutQueue(tx, 1) = Paid(tx)
<1> DEFINE n == Rounds(tx.op, 1)
<1>1. PICK iter : IsRunOf(tx, n, iter) /\ PaidOutQueue(tx, 1) = iter[1 .. n]
  BY QueueTurns
<1>2. n = 1
  <2>1. tx.op.queue \in Seq(Entries)
    BY DEF Sound, Holdings
  <2> DEFINE q == tx.op.queue
             length == Len(q)
  <2>2. n = IF 1 = 0 THEN length ELSE AtMost(1, length)
    BY DEF Rounds
  <2>3. q \in Seq(Entries) /\ q # <<>>
    BY <2>1
  <2> HIDE DEF q, n
  <2>4. length \in Nat /\ length # 0
    BY <2>3
  <2> HIDE DEF length
  <2> QED
    BY <2>2, <2>4 DEF AtMost
<1> HIDE DEF n
<1>3. 1 .. 1 - 1 = {} /\ 1 \in 1 .. 1
  OBVIOUS
<1> QED
  BY <1>1, <1>2, <1>3 DEF IsRunOf

\* "payOutQueue can't be allowed to fail": at all times, paying the first entry reverts
\* in one case only, when there is more DATA than the entry asked for but less than
\* the whole delegation is worth, which has become due.  Nobody is ever paid with more
\* tokens than it holds.
THEOREM QueueIsAlwaysPaidUnlessRich == Spec => []QueueIsPaidUnlessRich
<1>1. Init => StakesInv
  BY InitStakesInv
<1>2. StakesInv /\ [Next]_vars => StakesInv'
  BY NextStakesInv
<1>3. StakesInv => QueueIsPaidUnlessRich
  <2> SUFFICES ASSUME StakesInv, op.queue # <<>>, ~PaidOutQueue(Begin(op), 1).ok
               PROVE  Head(op.queue).amount < op.balance /\ op.balance < Due(op).data
    BY DEF QueueIsPaidUnlessRich
  <2> DEFINE b == Begin(op)
  <2>1. op \in Holdings /\ op.totalSlashed <= op.totalStaked
    BY StakeIsPart DEF StakesInv
  <2>2. Sound(b) /\ b.ok /\ b.op = op
    BY <2>1, BeginIs
  <2> HIDE DEF b
  <2>3. PaidOutQueue(b, 1) = Paid(b)
    BY <2>2, OneRound
  <2>4. ~PaidFirstInQueue(b).ok
    BY <2>2, <2>3 DEF Paid, b
  <2> QED
    BY <2>1, <2>2, <2>4, FirstIsPaid DEF Sound
<1> QED
  BY <1>1, <1>2, <1>3, PTL DEF Spec

-----------------------------------------------------------------------------
(* The rate of DATA per operator token *)

\* The tokens of b are worth no less than v DATA were among the tokens of a.
WorthAtLeast(v, a, b) == v * Supply(b) <= ValueOf(b) * Supply(a)

\* The tokens of everybody but the owner are untouched.
OthersKeepTokens(a, b) == \A h \in Holders \ {Owner} : b.tokens[h] = a.tokens[h]

OthersHold(a) == \E h \in Holders \ {Owner} : a.tokens[h] > 0

LEMMA OthersHoldSupply ==
    ASSUME NEW a \in Holdings, OthersHold(a)
    PROVE  Supply(a) \in Nat \ {0}
<1>1. PICK h \in Holders \ {Owner} : a.tokens[h] > 0
  BY DEF OthersHold
<1>2. Supply(a) \in Nat /\ a.tokens[h] <= Supply(a) /\ a.tokens[h] \in Nat
  BY SupplyIsNat DEF Holdings
<1> QED
  BY <1>1, <1>2

\* New tokens: what they are worth is what they are minted for, or more.
LEMMA MintedAreWorth ==
    ASSUME NEW a \in Holdings, ValueOf(a) >= 0, NEW data \in Nat, data <= ValueOf(a)
    PROVE  /\ MintedFor(a, data) \in Nat
           /\ Supply(a) > 0 => MintedFor(a, data) * (ValueOf(a) - data) <= data * Supply(a)
<1> DEFINE S == Supply(a)
           V == ValueOf(a)
           m == MintedFor(a, data)
<1>1. S \in Nat /\ V \in Nat /\ m \in Nat
  BY SupplyIsNat, ConversionsAreNat
<1>2. m = IF S = 0 THEN data ELSE IF V = data THEN 0 ELSE (data * S) \div (V - data)
  BY DEF MintedFor
<1> HIDE DEF S, V, m
<1>3. data * S \in Nat
  BY <1>1
<1>4. CASE S # 0 /\ V # data
  <2>1. V - data \in Nat \ {0}
    BY <1>1, <1>4 DEF V
  <2>2. (V - data) * m <= data * S
    BY <1>2, <1>3, <1>4, <2>1, QuotientIs
  <2> QED
    BY <1>1, <2>1, <2>2 DEF S, V, m
<1>5. CASE S # 0 /\ V = data
  <2>1. m * (V - data) = 0
    BY <1>1, <1>2, <1>5
  <2> QED
    BY <1>1, <1>3, <2>1 DEF S, V, m
<1> QED
  BY <1>1, <1>4, <1>5 DEF S, V, m

\* The arithmetic of minting and of burning
LEMMA MoreTokens ==
    ASSUME NEW V \in Nat, NEW S \in Nat, NEW m \in Nat, NEW d \in Nat, NEW v \in Int,
           d <= V, m * (V - d) <= d * S, v <= V - d
    PROVE  v * (S + m) <= V * S
<1> DEFINE w == V - d
<1>1. w \in Nat /\ V = w + d
  OBVIOUS
<1> HIDE DEF w
<1>2. v * (S + m) <= w * (S + m)
  BY <1>1 DEF w
<1>3. w * (S + m) = w * S + w * m /\ V * S = w * S + d * S /\ w * m = m * w
  BY <1>1
<1> QED
  BY <1>1, <1>2, <1>3 DEF w

LEMMA FewerTokens ==
    ASSUME NEW V \in Nat, NEW S \in Nat, NEW b \in Nat, NEW d \in Nat, b <= S, d * S <= b * V
    PROVE  V * (S - b) <= (V - d) * S
<1>1. V * (S - b) = V * S - b * V /\ (V - d) * S = V * S - d * S
  OBVIOUS
<1>2. V * S \in Int /\ b * V \in Int /\ d * S \in Int
  OBVIOUS
<1> QED
  BY <1>1, <1>2

LEMMA RatesChain ==
    ASSUME NEW V1 \in Nat, NEW S1 \in Nat, NEW V2 \in Nat, NEW S2 \in Nat \ {0},
           NEW V3 \in Nat, NEW S3 \in Nat,
           V1 * S2 <= V2 * S1, V2 * S3 <= V3 * S2
    PROVE  V1 * S3 <= V3 * S1
<1>1. (V1 * S2) * S3 <= (V2 * S1) * S3 /\ (V2 * S3) * S1 <= (V3 * S2) * S1
  <2>1. V1 * S2 \in Nat /\ V2 * S1 \in Nat /\ V2 * S3 \in Nat /\ V3 * S2 \in Nat
    OBVIOUS
  <2> QED
    BY <2>1
<1>2. (V2 * S1) * S3 = (V2 * S3) * S1
  OBVIOUS
<1>3. (V1 * S2) * S3 = S2 * (V1 * S3) /\ (V3 * S2) * S1 = S2 * (V3 * S1)
  OBVIOUS
<1>4. V1 * S3 \in Nat /\ V3 * S1 \in Nat
  OBVIOUS
<1> DEFINE x == V1 * S3
           y == V3 * S1
<1>5. S2 * x <= S2 * y /\ x \in Nat /\ y \in Nat
  BY <1>1, <1>2, <1>3, <1>4
<1> HIDE DEF x, y
<1>6. x <= y
  BY <1>5
<1> QED
  BY <1>6 DEF x, y

-----------------------------------------------------------------------------

\* What _delegate does to the accounts
LEMMA DelegatedAccounts ==
    ASSUME NEW tx, IsTx(tx), NEW h \in Holders, NEW data
    PROVE  Delegated(tx, h, data).op =
             [tx.op EXCEPT !.tokens[h] = tx.op.tokens[h] + MintedFor(tx.op, data)]
<1> DEFINE x == tx.op.tokens[h] + MintedFor(tx.op, data)
           minted == [tx EXCEPT !.op.tokens[h] = x]
           divides == Supply(tx.op) = 0 \/ ValueOf(tx.op) # data
           allowed == h = Owner \/ (/\ minted.op.tokens[h] >= MinimumDelegation
                                    /\ OwnerHasEnough(minted.op))
           event == [name |-> "Delegated", delegator |-> h, amountDataWei |-> data]
           required == Require(minted, divides /\ allowed)
           t == Delegated(tx, h, data)
<1>1. t = OperatorValueUpdate(BalanceUpdate(Log(required, event), h))
  BY DEF Delegated
<1>2. IsTx(minted) /\ minted.op = [tx.op EXCEPT !.tokens[h] = x]
  <2> HIDE DEF x
  <2> QED
    BY DEF IsTx
<1> HIDE DEF minted, x
<1>3. IsTx(required) /\ required.op = minted.op
  <2> HIDE DEF divides, allowed
  <2> QED
    BY <1>2 DEF Require, IsTx, required
<1> HIDE DEF required, event, t, divides, allowed
<1>4. IsTx(t) /\ t.op = required.op
  BY <1>1, <1>3, LogKeeps, ReportsKeep
<1> QED
  BY <1>2, <1>3, <1>4 DEF x, t

LEMMA SlashSelfDelegationAccounts ==
    ASSUME NEW tx, IsTx(tx), NEW data
    PROVE  SlashSelfDelegation(tx, data).op =
             IF tx.op.tokens[Owner] = 0 THEN tx.op
             ELSE [tx.op EXCEPT !.tokens[Owner] = tx.op.tokens[Owner]
                     - AtMost(TokensForData(tx.op, data), tx.op.tokens[Owner])]
<1> DEFINE burned == AtMost(TokensForData(tx.op, data), tx.op.tokens[Owner])
           able == Require(tx, ValueOf(tx.op) > 0)
           x == able.op.tokens[Owner] - burned
           after == [able EXCEPT !.op.tokens[Owner] = x]
           t == SlashSelfDelegation(tx, data)
<1>1. CASE tx.op.tokens[Owner] = 0
  BY <1>1 DEF SlashSelfDelegation
<1>2. CASE tx.op.tokens[Owner] # 0
  <2>1. t = BalanceUpdate(after, Owner)
    BY <1>2 DEF SlashSelfDelegation
  <2>2. IsTx(able) /\ able.op = tx.op
    BY DEF Require, IsTx
  <2>3. IsTx(after) /\ after.op = [able.op EXCEPT !.tokens[Owner] = x]
    <3> HIDE DEF able, x
    <3> QED
      BY <2>2 DEF IsTx
  <2> HIDE DEF after, able, t
  <2>4. t.op = after.op
    BY <2>1, <2>3, ReportsKeep
  <2> QED
    BY <1>2, <2>2, <2>3, <2>4 DEF t
<1> QED
  BY <1>1, <1>2

\* Without any value the tokens that are worth the loss cannot be told.
LEMMA UnableToSlash ==
    ASSUME NEW tx, IsTx(tx), tx.op.tokens[Owner] # 0, ~(ValueOf(tx.op) > 0), NEW data
    PROVE  ~SlashSelfDelegation(tx, data).ok
<1> DEFINE burned == AtMost(TokensForData(tx.op, data), tx.op.tokens[Owner])
           able == Require(tx, ValueOf(tx.op) > 0)
           x == able.op.tokens[Owner] - burned
           after == [able EXCEPT !.op.tokens[Owner] = x]
           t == SlashSelfDelegation(tx, data)
<1>1. t = BalanceUpdate(after, Owner)
  BY DEF SlashSelfDelegation
<1>2. IsTx(able) /\ able.ok = FALSE
  BY DEF Require, IsTx
<1>3. IsTx(after) /\ after.ok = able.ok
  <2> HIDE DEF able, x
  <2> QED
    BY <1>2 DEF IsTx
<1> HIDE DEF after, able, t
<1>4. t.ok = after.ok
  BY <1>1, <1>3, ReportsKeep
<1> QED
  BY <1>2, <1>3, <1>4 DEF t

LEMMA PaidToAccounts ==
    ASSUME NEW tx, IsTx(tx), {"tokens", "balance"} \subseteq DOMAIN tx.op,
           tx.op.tokens \in [Holders -> Nat],
           NEW h \in Holders, NEW tokens, NEW data
    PROVE  LET t == PaidTo(tx, h, tokens, data)
           IN  /\ \A g \in Holders \ {h} : t.op.tokens[g] = tx.op.tokens[g]
               /\ t.op.tokens[h] = tx.op.tokens[h] - tokens
               /\ t.op.balance = tx.op.balance - data
<1> DEFINE able == Require(tx, tokens <= tx.op.tokens[h])
           x == able.op.tokens[h] - tokens
           y == able.op.balance - data
           without == [able EXCEPT !.op.tokens[h] = x]
           burned == [without EXCEPT !.op.balance = y]
           event == [name |-> "Undelegated", delegator |-> h, amountDataWei |-> data]
           t == PaidTo(tx, h, tokens, data)
<1>1. t = OperatorValueUpdate(BalanceUpdate(Log(burned, event), h))
  BY DEF PaidTo
<1>2. IsTx(able) /\ able.op = tx.op
  BY DEF Require, IsTx
<1> HIDE DEF able
<1>3. IsTx(without) /\ without.op = [able.op EXCEPT !.tokens[h] = x]
  <2> HIDE DEF x
  <2> QED
    BY <1>2 DEF IsTx
<1>4. IsTx(burned) /\ burned.op = [without.op EXCEPT !.balance = y]
  <2> HIDE DEF y, without
  <2> QED
    BY <1>3 DEF IsTx
<1> HIDE DEF burned, without, event, t
<1>5. t.op = burned.op
  BY <1>1, <1>4, LogKeeps, ReportsKeep
<1>6. /\ t.op.tokens = [tx.op.tokens EXCEPT ![h] = x]
      /\ t.op.balance = y
  BY <1>2, <1>3, <1>4, <1>5
<1> HIDE DEF x, y, t
<1>7. /\ \A g \in Holders \ {h} : t.op.tokens[g] = tx.op.tokens[g]
      /\ t.op.tokens[h] = x
  BY <1>6
<1> QED
  BY <1>2, <1>6, <1>7 DEF t, x, y

\* _delegate: the new tokens are worth the DATA that had come before, or less.
LEMMA DelegatedWorth ==
    ASSUME NEW tx, Sound(tx), tx.ok, NEW h \in Holders,
           NEW data \in Nat, data <= ValueOf(tx.op), Supply(tx.op) > 0
    PROVE  LET t == Delegated(tx, h, data)
           IN  t.ok => /\ ValueOf(t.op) = ValueOf(tx.op)
                       /\ \A g \in Holders \ {h} : t.op.tokens[g] = tx.op.tokens[g]
                       /\ Supply(t.op) >= Supply(tx.op)
                       /\ \A v \in Int : v <= ValueOf(tx.op) - data => WorthAtLeast(v, tx.op, t.op)
<1> DEFINE t == Delegated(tx, h, data)
           m == MintedFor(tx.op, data)
<1> SUFFICES ASSUME t.ok
             PROVE  /\ ValueOf(t.op) = ValueOf(tx.op)
                    /\ \A g \in Holders \ {h} : t.op.tokens[g] = tx.op.tokens[g]
                    /\ Supply(t.op) >= Supply(tx.op)
                    /\ \A v \in Int : v <= ValueOf(tx.op) - data => WorthAtLeast(v, tx.op, t.op)
  OBVIOUS
<1>1. t.op \in Holdings
  BY DelegatedIs
<1>2. tx.op \in Holdings /\ IsTx(tx)
  BY DEF Sound
<1>3. t.op = [tx.op EXCEPT !.tokens[h] = tx.op.tokens[h] + m]
  BY <1>2, DelegatedAccounts
<1> HIDE DEF t
<1>4. /\ ValueOf(tx.op) \in Int /\ Supply(tx.op) \in Nat
  <2>1. ValueOf(tx.op) \in Int
    BY <1>2 DEF Holdings, ValueOf
  <2>2. Supply(tx.op) \in Nat
    BY <1>2, SupplyIsNat
  <2> QED
    BY <2>1, <2>2
<1>5. /\ m \in Nat
      /\ m * (ValueOf(tx.op) - data) <= data * Supply(tx.op)
  BY <1>2, <1>4, MintedAreWorth
<1> HIDE DEF m
<1>6. /\ \A g \in Holders \ {h} : t.op.tokens[g] = tx.op.tokens[g]
      /\ t.op.tokens[h] = tx.op.tokens[h] + m
      /\ ValueOf(t.op) = ValueOf(tx.op)
  BY <1>2, <1>3 DEF Holdings, ValueOf
<1>7. Supply(t.op) = Supply(tx.op) + m
  <2>1. Supply(t.op) = Supply(tx.op) - tx.op.tokens[h] + t.op.tokens[h]
    BY <1>1, <1>2, <1>6, SupplyChanges
  <2>2. tx.op.tokens[h] \in Nat
    BY <1>2 DEF Holdings
  <2> QED
    BY <1>4, <1>5, <1>6, <2>1, <2>2
<1>8. ASSUME NEW v \in Int, v <= ValueOf(tx.op) - data
      PROVE  WorthAtLeast(v, tx.op, t.op)
  <2> DEFINE V == ValueOf(tx.op)
             S == Supply(tx.op)
  <2>1. V \in Nat /\ S \in Nat /\ data <= V /\ m * (V - data) <= data * S /\ v <= V - data
    BY <1>4, <1>5, <1>8
  <2> HIDE DEF V, S
  <2>2. v * (S + m) <= V * S
    BY <1>5, <2>1, MoreTokens
  <2> QED
    BY <1>6, <1>7, <2>2 DEF V, S, WorthAtLeast
<1> QED
  BY <1>4, <1>5, <1>6, <1>7, <1>8

\* _slashSelfDelegation: as long as the owner has tokens left, those burned were
\* worth the DATA that is about to be lost.
LEMMA SlashSelfDelegationWorth ==
    ASSUME NEW tx, Sound(tx), tx.ok, NEW data \in Nat, ValueOf(tx.op) >= 0
    PROVE  LET t == SlashSelfDelegation(tx, data)
           IN  t.ok => /\ ValueOf(t.op) = ValueOf(tx.op)
                       /\ OthersKeepTokens(tx.op, t.op)
                       /\ t.op.tokens[Owner] <= tx.op.tokens[Owner]
                       /\ Supply(t.op) <= Supply(tx.op)
                       /\ t.op.tokens[Owner] > 0 =>
                            ValueOf(tx.op) * Supply(t.op) <= (ValueOf(tx.op) - data) * Supply(tx.op)
<1> DEFINE t == SlashSelfDelegation(tx, data)
           needed == TokensForData(tx.op, data)
           held == tx.op.tokens[Owner]
           V == ValueOf(tx.op)
           S == Supply(tx.op)
<1> SUFFICES ASSUME t.ok
             PROVE  /\ ValueOf(t.op) = V
                    /\ OthersKeepTokens(tx.op, t.op)
                    /\ t.op.tokens[Owner] <= held
                    /\ Supply(t.op) <= S
                    /\ t.op.tokens[Owner] > 0 => V * Supply(t.op) <= (V - data) * S
  OBVIOUS
<1>1. t.op \in Holdings
  BY SlashSelfDelegationIs
<1>2. tx.op \in Holdings /\ IsTx(tx) /\ Owner \in Holders
  BY OperatorAssumption DEF Sound
<1>3. t.op = IF held = 0 THEN tx.op
             ELSE [tx.op EXCEPT !.tokens[Owner] = held - AtMost(needed, held)]
  BY <1>2, SlashSelfDelegationAccounts
<1> HIDE DEF t
<1>4. V \in Nat /\ S \in Nat /\ held \in Nat /\ held <= S /\ needed \in Nat
  BY <1>2, SupplyIsNat, ConversionsAreNat DEF Holdings
<1>5. CASE held = 0
  BY <1>3, <1>4, <1>5 DEF OthersKeepTokens
<1>6. CASE held # 0
  <2> DEFINE b == AtMost(needed, held)
  <2>1. b \in Nat /\ b <= held /\ b \in {needed, held}
    BY <1>4, AtMostIs
  <2>2. t.op = [tx.op EXCEPT !.tokens[Owner] = held - b]
    BY <1>3, <1>6
  <2> HIDE DEF b
  <2>3. /\ \A g \in Holders \ {Owner} : t.op.tokens[g] = tx.op.tokens[g]
        /\ t.op.tokens[Owner] = held - b
        /\ ValueOf(t.op) = V
    BY <1>2, <2>2 DEF Holdings, ValueOf
  <2>4. Supply(t.op) = S - b
    <3>1. Supply(t.op) = Supply(tx.op) - tx.op.tokens[Owner] + t.op.tokens[Owner]
      BY <1>1, <1>2, <2>3, SupplyChanges
    <3> QED
      BY <1>4, <2>1, <2>3, <3>1
  <2>5. ASSUME t.op.tokens[Owner] > 0 PROVE V * Supply(t.op) <= (V - data) * S
    <3>1. b = needed /\ b <= S
      BY <1>4, <2>1, <2>3, <2>5
    <3>2. needed = IF V = 0 THEN 0 ELSE (data * S + V - 1) \div V
      BY DEF TokensForData
    <3> HIDE DEF V, S, needed, held
    <3>3. CASE V = 0
      <4>1. ~(ValueOf(tx.op) > 0) /\ tx.op.tokens[Owner] # 0
        BY <1>6, <3>3 DEF V, held
      <4>2. ~SlashSelfDelegation(tx, data).ok
        BY <1>2, <4>1, UnableToSlash
      <4> QED
        BY <4>2 DEF t
    <3>4. CASE V # 0
      <4> DEFINE x == data * S + V - 1
                 q == x \div V
      <4>1. data * S \in Nat
        BY <1>4
      <4>2. x \in Nat /\ V \in Nat \ {0}
        BY <1>4, <3>4, <4>1
      <4> HIDE DEF x
      <4>3. q \in Nat /\ x < V * q + V
        BY <4>2, QuotientIs
      <4>4. q = b
        BY <3>1, <3>2, <3>4 DEF x
      <4> HIDE DEF q
      <4>5. V * b \in Nat /\ V * b = b * V
        BY <1>4, <2>1
      <4>6. data * S <= b * V
        BY <4>1, <4>2, <4>3, <4>4, <4>5 DEF x
      <4>7. V * (S - b) <= (V - data) * S
        BY <1>4, <2>1, <3>1, <4>6, FewerTokens
      <4> QED
        BY <2>4, <4>7
    <3> QED
      BY <3>3, <3>4
  <2> QED
    BY <1>4, <2>1, <2>3, <2>4, <2>5 DEF OthersKeepTokens
<1> QED
  BY <1>5, <1>6

-----------------------------------------------------------------------------

\* Some holders are paid for tokens that were worth it.
PaysFairly(a, b) ==
    /\ Supply(b) <= Supply(a) /\ b.tokens[Owner] <= a.tokens[Owner]
    /\ WorthAtLeast(ValueOf(a), a, b)

LEMMA FairPayment ==
    ASSUME NEW a \in Holdings, NEW b \in Holdings, NEW h \in Holders, NEW tokens \in Nat,
           NEW data \in Nat, ValueOf(a) >= 0, data * Supply(a) <= tokens * ValueOf(a),
           \A g \in Holders \ {h} : b.tokens[g] = a.tokens[g],
           b.tokens[h] = a.tokens[h] - tokens,
           b.balance = a.balance - data,
           b.totalStaked = a.totalStaked, b.totalSlashed = a.totalSlashed
    PROVE  PaysFairly(a, b)
<1> DEFINE S == Supply(a)
           V == ValueOf(a)
<1>1. /\ \A g \in Holders \ {h} : b.tokens[g] = a.tokens[g]
      /\ b.tokens[h] = a.tokens[h] - tokens
      /\ a.tokens[h] \in Nat /\ b.tokens[h] \in Nat
      /\ b.tokens[Owner] \in Nat /\ a.tokens[Owner] \in Nat
  BY OperatorAssumption DEF Holdings
<1>2. Supply(b) = S - tokens
  <2>1. Supply(b) = Supply(a) - a.tokens[h] + b.tokens[h]
    BY <1>1, SupplyChanges
  <2>2. Supply(a) \in Nat
    BY SupplyIsNat
  <2> QED
    BY <1>1, <2>1, <2>2
<1>3. ValueOf(b) = V - data /\ V \in Nat /\ S \in Nat
  <2>1. a.balance \in Nat /\ a.totalStaked \in Int /\ a.totalSlashed \in Int
    BY ValueIsInt
  <2>2. ValueOf(b) = V - data /\ V \in Int
    BY <2>1 DEF ValueOf
  <2> QED
    BY <2>2, SupplyIsNat
<1>4. tokens <= S
  <2>1. Supply(b) \in Nat
    BY SupplyIsNat
  <2> QED
    BY <1>2, <1>3, <2>1
<1>5. data * S <= tokens * V
  OBVIOUS
<1> HIDE DEF S, V
<1>6. V * (S - tokens) <= (V - data) * S
  BY <1>3, <1>4, <1>5, FewerTokens
<1>7. WorthAtLeast(ValueOf(a), a, b)
  BY <1>2, <1>3, <1>6 DEF WorthAtLeast, V, S
<1>8. Supply(b) <= Supply(a)
  BY <1>2, <1>3 DEF S
<1>9. b.tokens[Owner] <= a.tokens[Owner]
  BY <1>1, OperatorAssumption
<1> QED
  BY <1>7, <1>8, <1>9 DEF PaysFairly

LEMMA PaysFairlyAtAll ==
    ASSUME NEW a \in Holdings
    PROVE  PaysFairly(a, a)
<1>1. Supply(a) \in Nat /\ ValueOf(a) \in Int /\ a.tokens[Owner] \in Int
  <2>1. a.tokens \in [Holders -> Nat]
    BY DEF Holdings
  <2>2. a.tokens[Owner] \in Nat
    BY <2>1, OperatorAssumption
  <2> QED
    BY <2>2, SupplyIsNat, ValueIsInt
<1> DEFINE S == Supply(a)
           V == ValueOf(a)
<1>2. S \in Nat /\ V \in Int
  BY <1>1
<1> HIDE DEF S, V
<1>3. V * S <= V * S /\ S <= S
  BY <1>2
<1> QED
  BY <1>1, <1>3 DEF PaysFairly, WorthAtLeast, S, V

LEMMA PaymentsChain ==
    ASSUME NEW a \in Holdings, NEW b \in Holdings, NEW c \in Holdings,
           ValueOf(a) >= 0, ValueOf(b) >= 0, ValueOf(c) >= 0,
           PaysFairly(a, b), PaysFairly(b, c)
    PROVE  PaysFairly(a, c)
<1> DEFINE V1 == ValueOf(a)
           V2 == ValueOf(b)
           V3 == ValueOf(c)
           S1 == Supply(a)
           S2 == Supply(b)
           S3 == Supply(c)
<1>1. /\ V1 \in Nat /\ V2 \in Nat /\ V3 \in Nat /\ S1 \in Nat /\ S2 \in Nat /\ S3 \in Nat
  <2>1. V1 \in Int /\ V2 \in Int /\ V3 \in Int
    BY ValueIsInt
  <2>2. S1 \in Nat /\ S2 \in Nat /\ S3 \in Nat
    BY SupplyIsNat
  <2> QED
    BY <2>1, <2>2
<1>2. /\ S2 <= S1 /\ S3 <= S2 /\ V1 * S2 <= V2 * S1 /\ V2 * S3 <= V3 * S2
  BY DEF PaysFairly, WorthAtLeast
<1>3. /\ a.tokens[Owner] \in Nat /\ b.tokens[Owner] \in Nat /\ c.tokens[Owner] \in Nat
      /\ b.tokens[Owner] <= a.tokens[Owner] /\ c.tokens[Owner] <= b.tokens[Owner]
  BY OperatorAssumption DEF PaysFairly, Holdings
<1> HIDE DEF V1, V2, V3, S1, S2, S3
<1>4. CASE S2 = 0
  <2>1. S3 = 0 /\ V3 * S1 \in Nat
    BY <1>1, <1>2, <1>4
  <2>2. V1 * S3 = 0
    BY <1>1, <2>1
  <2>3. S3 <= S1
    BY <1>1, <1>2
  <2> QED
    BY <1>3, <2>1, <2>2, <2>3 DEF PaysFairly, WorthAtLeast, V1, V3, S1, S3
<1>5. CASE S2 # 0
  <2>1. V1 * S3 <= V3 * S1
    BY <1>1, <1>2, <1>5, RatesChain
  <2>2. S3 <= S1
    BY <1>1, <1>2
  <2> QED
    BY <1>3, <2>1, <2>2 DEF PaysFairly, WorthAtLeast, V1, V3, S1, S3
<1> QED
  BY <1>4, <1>5

\* The tokens that data is turned into are worth it.
LEMMA TokensCoverData ==
    ASSUME NEW a \in Holdings, ValueOf(a) >= 0, NEW x \in Nat, x <= ValueOf(a)
    PROVE  x * Supply(a) <= TokensForData(a, x) * ValueOf(a)
<1> DEFINE S == Supply(a)
           V == ValueOf(a)
           b == TokensForData(a, x)
<1>1. S \in Nat /\ V \in Nat /\ b \in Nat
  BY SupplyIsNat, ConversionsAreNat
<1>2. b = IF V = 0 THEN 0 ELSE (x * S + V - 1) \div V
  BY DEF TokensForData
<1>3. x <= V
  OBVIOUS
<1> HIDE DEF S, V, b
<1>4. CASE V = 0
  <2>1. x = 0 /\ b = 0
    BY <1>1, <1>2, <1>3, <1>4
  <2>2. x * S = 0 /\ b * V = 0
    BY <1>1, <2>1
  <2> QED
    BY <2>2 DEF S, V, b
<1>5. CASE V # 0
  <2> DEFINE y == x * S + V - 1
             q == y \div V
  <2>1. x * S \in Nat
    BY <1>1
  <2>2. y \in Nat /\ V \in Nat \ {0}
    BY <1>1, <1>5, <2>1
  <2> HIDE DEF y
  <2>3. q \in Nat /\ y < V * q + V
    BY <2>2, QuotientIs
  <2>4. q = b
    BY <1>2, <1>5 DEF y
  <2> HIDE DEF q
  <2>5. V * b \in Nat /\ V * b = b * V
    BY <1>1
  <2>6. x * S <= b * V
    BY <1>1, <2>1, <2>2, <2>3, <2>4, <2>5 DEF y
  <2> QED
    BY <2>6 DEF S, V, b
<1> QED
  BY <1>4, <1>5

\* The DATA that tokens are turned into is not worth more than they.
LEMMA DataIsCovered ==
    ASSUME NEW a \in Holdings, ValueOf(a) >= 0, NEW tokens \in Nat
    PROVE  TokensToData(a, tokens) * Supply(a) <= tokens * ValueOf(a)
<1> DEFINE S == Supply(a)
           V == ValueOf(a)
           d == TokensToData(a, tokens)
<1>1. S \in Nat /\ V \in Nat /\ d \in Nat
  BY SupplyIsNat, ConversionsAreNat
<1>2. d = IF S = 0 THEN 0 ELSE (tokens * V) \div S
  BY DEF TokensToData
<1> HIDE DEF S, V, d
<1>3. tokens * V \in Nat
  BY <1>1
<1>4. CASE S = 0
  <2>1. d * S = 0
    BY <1>1, <1>4
  <2> QED
    BY <1>3, <2>1 DEF S, V, d
<1>5. CASE S # 0
  <2>1. S * d <= tokens * V
    BY <1>1, <1>2, <1>3, <1>5, QuotientIs
  <2>2. S * d = d * S
    BY <1>1
  <2> QED
    BY <2>1, <2>2 DEF S, V, d
<1> QED
  BY <1>4, <1>5

LEMMA DueIsFair ==
    ASSUME NEW a \in Holdings, ValueOf(a) >= 0, a.queue # <<>>
    PROVE  Due(a).data * Supply(a) <= Due(a).tokens * ValueOf(a)
<1> DEFINE entry == Head(a.queue)
           asked == AtMost(entry.amount, ValueOf(a))
           held == a.tokens[entry.delegator]
<1>1. entry \in Entries
  BY DEF Holdings
<1>2. entry.amount \in Nat /\ entry.delegator \in Holders
  BY <1>1 DEF Entries
<1> HIDE DEF entry
<1>3. ValueOf(a) \in Nat
  BY ConversionsAreNat
<1>4. asked \in Nat /\ asked <= ValueOf(a)
  BY <1>2, <1>3 DEF AtMost
<1>5. held \in Nat
  BY <1>2 DEF Holdings
<1> HIDE DEF asked, held
<1>6. /\ TokensToData(a, held) * Supply(a) <= held * ValueOf(a)
      /\ asked * Supply(a) <= TokensForData(a, asked) * ValueOf(a)
  BY <1>4, <1>5, TokensCoverData, DataIsCovered
<1>7. \/ Due(a) = [tokens |-> held, data |-> TokensToData(a, held)]
      \/ Due(a) = [tokens |-> TokensForData(a, asked), data |-> asked]
  BY DEF Due, entry, asked, held
<1> QED
  BY <1>6, <1>7

\* _payOutFirstInQueue
LEMMA PaidFirstFair ==
    ASSUME NEW tx, IsTx(tx), tx.ok, tx.op \in Holdings, tx.op.queue # <<>>,
           tx.op.totalSlashed <= tx.op.totalStaked
    PROVE  LET t == PaidFirstInQueue(tx)
           IN  t.ok => PaysFairly(tx.op, t.op)
<1> DEFINE entry == Head(tx.op.queue)
           due == Due(tx.op)
           all == tx.op.balance
           left == entry.amount - all
           able == Require(tx, left >= 0)
           changed == [able EXCEPT !.op.queue[1].amount = left]
           partly == QueueUpdated(changed, QueueIndex(tx.op), left)
           tokens == TokensForData(tx.op, all)
           t == PaidFirstInQueue(tx)
<1> SUFFICES ASSUME t.ok PROVE PaysFairly(tx.op, t.op)
  OBVIOUS
<1>1. ValueOf(tx.op) >= 0 /\ all \in Nat /\ all <= ValueOf(tx.op)
  BY ValueIsInt DEF ValueOf
<1>2. /\ entry \in Entries /\ due.tokens \in Nat /\ due.data \in Nat /\ tokens \in Nat
      /\ due.data * Supply(tx.op) <= due.tokens * ValueOf(tx.op)
      /\ all * Supply(tx.op) <= tokens * ValueOf(tx.op)
  BY <1>1, DueIsNat, DueIsFair, ConversionsAreNat, TokensCoverData
<1>3. entry.delegator \in Holders
  BY <1>2 DEF Entries
<1>4. t.op \in Holdings /\ SameStakes(tx.op, t.op)
  BY PaidFirstIs
<1>5. t.op.totalStaked = tx.op.totalStaked /\ t.op.totalSlashed = tx.op.totalSlashed
  <2> HIDE DEF t
  <2> QED
    BY <1>4 DEF SameStakes
<1>6. CASE due.data = 0 \/ due.tokens = 0
  <2>1. t = PopQueue(tx)
    BY <1>6 DEF PaidFirstInQueue
  <2>2. t.op.balance = tx.op.balance /\ t.op.tokens = tx.op.tokens
    BY <2>1, PopQueueIs DEF Sound
  <2> HIDE DEF t
  <2>3. ValueOf(t.op) = ValueOf(tx.op) /\ Supply(t.op) = Supply(tx.op)
    BY <1>5, <2>2 DEF ValueOf, Supply
  <2>4. PaysFairly(tx.op, tx.op)
    BY PaysFairlyAtAll
  <2> QED
    BY <2>2, <2>3, <2>4 DEF PaysFairly, WorthAtLeast
<1>7. CASE ~(due.data = 0 \/ due.tokens = 0) /\ all >= due.data
  <2> DEFINE popped == PopQueue(tx)
  <2>1. t = PaidTo(popped, entry.delegator, due.tokens, due.data)
    BY <1>7 DEF PaidFirstInQueue
  <2>2. /\ IsTx(popped) /\ popped.ok
        /\ popped.op.balance = tx.op.balance /\ popped.op.tokens = tx.op.tokens
    BY PopQueueIs DEF Sound
  <2> HIDE DEF popped, due, entry, all
  <2> DEFINE h == entry.delegator
             x == due.tokens
             y == due.data
  <2>9. t = PaidTo(popped, h, x, y) /\ h \in Holders
    BY <1>3, <2>1
  <2> HIDE DEF h, x, y, t
  <2>4. popped.op \in Holdings
    BY PopQueueIs DEF Sound, popped
  <2>3. /\ {"tokens", "balance"} \subseteq DOMAIN popped.op
        /\ popped.op.tokens \in [Holders -> Nat]
    BY <2>4 DEF Holdings
  <2>5. /\ \A g \in Holders \ {h} : t.op.tokens[g] = tx.op.tokens[g]
        /\ t.op.tokens[h] = tx.op.tokens[h] - x
        /\ t.op.balance = tx.op.balance - y
    BY <2>2, <2>3, <2>9, PaidToAccounts
  <2> HIDE DEF h
  <2> QED
    BY <1>1, <1>2, <1>3, <1>4, <1>5, <2>5, FairPayment DEF h, x, y
<1>8. CASE ~(due.data = 0 \/ due.tokens = 0) /\ ~(all >= due.data)
  <2>1. t = PaidTo(partly, entry.delegator, tokens, all)
    BY <1>8 DEF PaidFirstInQueue
  <2>2. IsTx(able) /\ able.op = tx.op
    BY DEF Require, IsTx
  <2> HIDE DEF able, due, tokens
  <2> DEFINE queue == [tx.op.queue EXCEPT ![1] = [tx.op.queue[1] EXCEPT !.amount = left]]
  <2>3. IsTx(changed) /\ changed.op = [tx.op EXCEPT !.queue = queue]
    <3> HIDE DEF left
    <3> QED
      BY <2>2 DEF IsTx
  <2> HIDE DEF changed, left, queue
  <2>4. /\ changed.op.tokens = tx.op.tokens /\ changed.op.balance = tx.op.balance
    BY <2>3 DEF Holdings
  <2>5. IsTx(partly) /\ partly.op = changed.op
    BY <2>3, QueueReportKeeps
  <2> HIDE DEF partly, entry, all, t
  <2> DEFINE h == entry.delegator
  <2>8. t = PaidTo(partly, h, tokens, all) /\ h \in Holders
    BY <1>3, <2>1 DEF t
  <2> HIDE DEF h
  <2>6. /\ {"tokens", "balance"} \subseteq DOMAIN changed.op
        /\ changed.op.tokens \in [Holders -> Nat]
    BY <2>3 DEF Holdings
  <2>7. /\ \A g \in Holders \ {h} : t.op.tokens[g] = tx.op.tokens[g]
        /\ t.op.tokens[h] = tx.op.tokens[h] - tokens
        /\ t.op.balance = tx.op.balance - all
    BY <2>4, <2>5, <2>6, <2>8, PaidToAccounts
  <2> HIDE DEF h
  <2> QED
    BY <1>1, <1>2, <1>3, <1>4, <1>5, <2>7, FairPayment DEF h
<1> QED
  BY <1>6, <1>7, <1>8

\* What holds after any number of payments that began with tx
PaidFairlyFrom(tx, t) == PaidFrom(tx, t) /\ (t.ok => PaysFairly(tx.op, t.op))

LEMMA PaidKeepsFair ==
    ASSUME NEW tx, Sound(tx), tx.ok => tx.op.totalSlashed <= tx.op.totalStaked,
           NEW t, PaidFairlyFrom(tx, t)
    PROVE  PaidFairlyFrom(tx, Paid(t))
<1>1. PaidFrom(tx, Paid(t))
  BY PaidKeeps DEF PaidFairlyFrom
<1>2. CASE ~(t.ok /\ t.op.balance > 0 /\ t.op.queue # <<>>)
  BY <1>2 DEF Paid
<1>3. CASE t.ok /\ t.op.balance > 0 /\ t.op.queue # <<>>
  <2> DEFINE after == PaidFirstInQueue(t)
  <2>1. Paid(t) = after
    BY <1>3 DEF Paid
  <2>2. /\ IsTx(t) /\ t.ok /\ t.op \in Holdings /\ t.op.queue # <<>>
        /\ tx.ok /\ SameStakes(tx.op, t.op) /\ PaysFairly(tx.op, t.op)
    BY <1>3 DEF PaidFairlyFrom, PaidFrom, Sound
  <2>3. t.op.totalSlashed <= t.op.totalStaked /\ tx.op.totalSlashed <= tx.op.totalStaked
    BY <2>2 DEF SameStakes
  <2>4. after.ok => PaysFairly(t.op, after.op)
    BY <2>2, <2>3, PaidFirstFair
  <2> HIDE DEF after
  <2>5. ASSUME after.ok PROVE PaysFairly(tx.op, after.op)
    <3>1. after.op \in Holdings /\ SameStakes(tx.op, after.op) /\ tx.op \in Holdings
      BY <1>1, <2>1, <2>2, <2>5 DEF PaidFrom, Sound
    <3>2. ValueOf(tx.op) >= 0 /\ ValueOf(t.op) >= 0
      BY <2>2, <2>3, <3>1, SoundValue
    <3>3. after.op.totalSlashed <= after.op.totalStaked
      BY <2>3, <3>1 DEF SameStakes
    <3>4. ValueOf(after.op) >= 0
      BY <3>1, <3>3, SoundValue
    <3> QED
      BY <2>2, <2>4, <2>5, <3>1, <3>2, <3>4, PaymentsChain
  <2> QED
    BY <1>1, <2>1, <2>5 DEF PaidFairlyFrom
<1> QED
  BY <1>2, <1>3

\* payOutQueue: nobody who stays pays for those who are paid out.
LEMMA PaidOutQueueFair ==
    ASSUME NEW tx, Sound(tx), NEW maxIterations \in Nat,
           tx.ok => tx.op.totalSlashed <= tx.op.totalStaked
    PROVE  PaidFairlyFrom(tx, PaidOutQueue(tx, maxIterations))
<1>1. PaidFairlyFrom(tx, tx)
  BY PaysFairlyAtAll DEF PaidFairlyFrom, PaidFrom, SameStakes, Sound
<1>2. CASE ~tx.ok
  BY <1>1, <1>2 DEF PaidOutQueue
<1>3. CASE tx.ok
  <2> DEFINE n == Rounds(tx.op, maxIterations)
  <2>1. n \in Nat
    BY <1>3, QueueTurns
  <2>2. PICK iter : IsRunOf(tx, n, iter) /\ PaidOutQueue(tx, maxIterations) = iter[1 .. n]
    BY <1>3, QueueTurns
  <2> HIDE DEF n
  <2>3. ASSUME NEW k \in 1 .. n, PaidFairlyFrom(tx, iter[1 .. k - 1])
        PROVE  PaidFairlyFrom(tx, iter[1 .. k])
    <3> DEFINE before == iter[1 .. k - 1]
    <3>1. PaidFairlyFrom(tx, before) /\ iter[1 .. k] = Paid(before)
      BY <2>2, <2>3 DEF IsRunOf
    <3> HIDE DEF before
    <3> QED
      BY <3>1, PaidKeepsFair
  <2>4. CASE n = 0
    <3>1. 1 .. 0 = {}
      OBVIOUS
    <3> QED
      BY <1>1, <2>2, <2>4, <3>1 DEF IsRunOf
  <2>5. CASE n > 0
    <3> DEFINE T == {k \in 1 .. n : PaidFairlyFrom(tx, iter[1 .. k])}
    <3>1. 1 \in T
      <4>1. 1 .. 1 - 1 = {} /\ 1 \in 1 .. n
        BY <2>1, <2>5
      <4> QED
        BY <1>1, <2>2, <2>3, <4>1 DEF IsRunOf
    <3>2. ASSUME NEW i \in 1 .. n, i < n, i \in T
          PROVE  i + 1 \in T
      <4>1. i + 1 \in 1 .. n /\ (i + 1) - 1 = i
        BY <2>1, <3>2
      <4> QED
        BY <2>3, <3>2, <4>1
    <3> HIDE DEF T
    <3>3. 1 .. n \subseteq T
      BY <2>1, <3>1, <3>2, IntervalInduction
    <3>4. n \in T
      BY <2>1, <2>5, <3>3
    <3> QED
      BY <2>2, <3>4 DEF T
  <2> QED
    BY <2>1, <2>4, <2>5
<1> QED
  BY <1>2, <1>3

-----------------------------------------------------------------------------

\* A transaction whose accounts change in one field
LEMMA BalanceTx ==
    ASSUME NEW tx, IsTx(tx), NEW p
    PROVE  LET t == [tx EXCEPT !.op.balance = p]
           IN  IsTx(t) /\ t.ok = tx.ok /\ t.op = [tx.op EXCEPT !.balance = p]
  BY DEF IsTx

ClosedAccounts(a, y, z) ==
    LET a1 == [a EXCEPT !.totalStaked = y]
    IN  [a1 EXCEPT !.totalSlashed = z]

Closed(tx, y, z) ==
    LET t1 == [tx EXCEPT !.op.totalStaked = y]
    IN  [t1 EXCEPT !.op.totalSlashed = z]

LEMMA ClosedIs ==
    ASSUME NEW tx, IsTx(tx), NEW y, NEW z
    PROVE  /\ IsTx(Closed(tx, y, z)) /\ Closed(tx, y, z).ok = tx.ok
           /\ Closed(tx, y, z).op = ClosedAccounts(tx.op, y, z)
<1> DEFINE a1 == [tx.op EXCEPT !.totalStaked = y]
           t1 == [tx EXCEPT !.op.totalStaked = y]
           t2 == [t1 EXCEPT !.op.totalSlashed = z]
<1>1. IsTx(t1) /\ t1.ok = tx.ok /\ t1.op = a1
  BY DEF IsTx
<1> HIDE DEF t1, a1
<1>2. IsTx(t2) /\ t2.ok = t1.ok /\ t2.op = [t1.op EXCEPT !.totalSlashed = z]
  BY <1>1 DEF IsTx
<1>3. t2 = Closed(tx, y, z)
  BY DEF Closed, t1
<1>4. [t1.op EXCEPT !.totalSlashed = z] = ClosedAccounts(tx.op, y, z)
  BY <1>1 DEF ClosedAccounts, a1
<1> HIDE DEF t2
<1> QED
  BY <1>1, <1>2, <1>3, <1>4

\* The owner's fair cut: what the others have is worth what it was without the
\* earnings, or more.
LEMMA EarningsSplitWorth ==
    ASSUME NEW tx, Sound(tx), tx.ok, NEW earnings \in Nat, earnings <= tx.op.balance,
           tx.op.totalSlashed <= tx.op.totalStaked, Supply(tx.op) > 0
    PROVE  LET t == EarningsSplit(tx, earnings)
           IN  t.ok => /\ OthersKeepTokens(tx.op, t.op)
                       /\ Supply(t.op) >= Supply(tx.op)
                       /\ ValueOf(t.op) <= ValueOf(tx.op)
                       /\ \A v \in Int : v <= ValueOf(tx.op) - earnings => WorthAtLeast(v, tx.op, t.op)
<1> DEFINE fee == (earnings * FeeFraction) \div Ether
           rest == earnings - fee
           cut == (rest * tx.op.cut) \div Ether
           p == tx.op.balance - fee
           t1 == [tx EXCEPT !.op.balance = p]
           d == Delegated(t1, Owner, cut)
           event == [name |-> "Profit", valueIncreaseWei |-> earnings - fee - cut,
                     operatorsCutDataWei |-> cut]
           t == EarningsSplit(tx, earnings)
<1>1. t = Log(d, event)
  BY DEF EarningsSplit
<1>2. IsTx(t1) /\ t1.ok = tx.ok /\ t1.op = [tx.op EXCEPT !.balance = p]
  BY BalanceTx DEF Sound
<1>3. tx.op \in Holdings /\ Owner \in Holders
  BY OperatorAssumption DEF Sound
<1>4. /\ tx.op.balance \in Nat /\ tx.op.cut \in 0 .. Ether
      /\ tx.op.totalStaked \in Int /\ tx.op.totalSlashed \in Int
      /\ ValueOf(tx.op) \in Int
  BY <1>3, ValueIsInt DEF Holdings
<1>5. fee \in 0 .. earnings
  <2>1. FeeFraction \in 0 .. Ether
    BY OperatorAssumption
  <2> QED
    BY <2>1, FractionIsPart
<1> HIDE DEF fee
<1>6. rest \in Nat /\ p \in Nat
  BY <1>4, <1>5
<1>7. cut \in 0 .. rest
  <2> DEFINE r == rest
  <2> HIDE DEF r
  <2>1. (r * tx.op.cut) \div Ether \in 0 .. r
    BY <1>4, <1>6, FractionIsPart DEF r
  <2> QED
    BY <2>1 DEF r
<1> HIDE DEF cut
<1>8. /\ t1.op \in Holdings /\ SameStakes(tx.op, t1.op)
      /\ t1.op.balance = p /\ t1.op.tokens = tx.op.tokens
  <2> HIDE DEF p, t1
  <2> QED
    BY <1>2, <1>3, <1>6, NewBalance
<1> HIDE DEF t1
<1>9. ValueOf(t1.op) = ValueOf(tx.op) - fee /\ Supply(t1.op) = Supply(tx.op)
  <2>1. ValueOf(t1.op) = p + tx.op.totalStaked - tx.op.totalSlashed
    BY <1>8 DEF ValueOf, SameStakes
  <2>2. ValueOf(tx.op) = tx.op.balance + tx.op.totalStaked - tx.op.totalSlashed
    BY DEF ValueOf
  <2>3. Supply(t1.op) = Supply(tx.op)
    BY <1>8 DEF Supply
  <2> QED
    BY <1>4, <1>5, <2>1, <2>2, <2>3
<1>10. cut \in Nat /\ cut <= ValueOf(t1.op)
  <2>1. ValueOf(tx.op) = tx.op.balance + tx.op.totalStaked - tx.op.totalSlashed
    BY DEF ValueOf
  <2> QED
    BY <1>4, <1>5, <1>6, <1>7, <1>9, <2>1
<1>11. Sound(t1) /\ t1.ok
  BY <1>2, <1>8 DEF Sound
<1>12. IsTx(d)
  BY <1>3, <1>10, <1>11, DelegatedIs
<1>13. d.ok => /\ ValueOf(d.op) = ValueOf(t1.op)
               /\ \A g \in Holders \ {Owner} : d.op.tokens[g] = t1.op.tokens[g]
               /\ Supply(d.op) >= Supply(t1.op)
               /\ \A v \in Int : v <= ValueOf(t1.op) - cut => WorthAtLeast(v, t1.op, d.op)
  BY <1>3, <1>9, <1>10, <1>11, DelegatedWorth
<1> HIDE DEF d, t, event
<1>14. t.op = d.op /\ t.ok = d.ok
  BY <1>1, <1>12, LogKeeps
<1> SUFFICES ASSUME t.ok
             PROVE  /\ OthersKeepTokens(tx.op, t.op)
                    /\ Supply(t.op) >= Supply(tx.op)
                    /\ ValueOf(t.op) <= ValueOf(tx.op)
                    /\ \A v \in Int : v <= ValueOf(tx.op) - earnings => WorthAtLeast(v, tx.op, t.op)
  BY DEF t
<1>15. /\ ValueOf(t.op) = ValueOf(t1.op) /\ Supply(t.op) >= Supply(t1.op)
       /\ \A g \in Holders \ {Owner} : t.op.tokens[g] = t1.op.tokens[g]
       /\ \A v \in Int : v <= ValueOf(t1.op) - cut => WorthAtLeast(v, t1.op, t.op)
  BY <1>13, <1>14
<1>16. OthersKeepTokens(tx.op, t.op)
  BY <1>8, <1>15 DEF OthersKeepTokens
<1>17. ASSUME NEW v \in Int, v <= ValueOf(tx.op) - earnings
       PROVE  WorthAtLeast(v, tx.op, t.op)
  <2>1. v <= ValueOf(t1.op) - cut
    BY <1>4, <1>5, <1>7, <1>9, <1>17
  <2>2. WorthAtLeast(v, t1.op, t.op)
    BY <1>15, <2>1
  <2> QED
    BY <1>9, <2>2 DEF WorthAtLeast
<1>18. ValueOf(t.op) <= ValueOf(tx.op)
  BY <1>4, <1>5, <1>9, <1>15
<1>19. Supply(t.op) >= Supply(tx.op)
  BY <1>9, <1>15
<1> QED
  BY <1>16, <1>17, <1>18, <1>19

\* _removeSponsorship leaves the owner's tokens as they are unless there is a profit.
LEMMA SponsorshipRemovedWorth ==
    ASSUME NEW tx, Sound(tx), tx.ok, NEW s \in Sponsorships,
           NEW received \in Nat, received <= tx.op.balance,
           StakesSound(tx.op), received < tx.op.stakedInto[s] \/ Supply(tx.op) > 0
    PROVE  LET t == SponsorshipRemoved(tx, s, received)
           IN  t.ok =>
                 /\ OthersKeepTokens(tx.op, t.op)
                 /\ received < tx.op.stakedInto[s] =>
                      /\ t.op.tokens = tx.op.tokens
                      /\ ValueOf(t.op) = ValueOf(tx.op) - (tx.op.stakedInto[s] - tx.op.slashedIn[s])
                 /\ received >= tx.op.stakedInto[s] =>
                      \A v \in Int : v <= ValueOf(tx.op) - received + tx.op.slashedIn[s]
                                       => WorthAtLeast(v, tx.op, t.op)
<1> DEFINE stake == tx.op.stakedInto[s]
           y == tx.op.totalStaked - stake
           z == tx.op.totalSlashed - tx.op.slashedIn[s]
           a1 == [tx.op EXCEPT !.totalStaked = y]
           a2 == [a1 EXCEPT !.totalSlashed = z]
           t1 == [tx EXCEPT !.op.totalStaked = y]
           t2 == [t1 EXCEPT !.op.totalSlashed = z]
           loss == [name |-> "Loss", valueDecreaseWei |-> stake - received]
           result == IF received < stake THEN Log(t2, loss) ELSE EarningsSplit(t2, received - stake)
           v == VoterUpdated(result)
           w == v.op.sponsorships \ {s}
           a3 == [v.op EXCEPT !.sponsorships = w]
           a4 == [a3 EXCEPT !.stakedInto[s] = 0]
           a5 == [a4 EXCEPT !.slashedIn[s] = 0]
           t3 == [v EXCEPT !.op.sponsorships = w]
           t4 == [t3 EXCEPT !.op.stakedInto[s] = 0]
           t5 == [t4 EXCEPT !.op.slashedIn[s] = 0]
           t == SponsorshipRemoved(tx, s, received)
<1>1. t = OperatorValueUpdate(t5)
  BY DEF SponsorshipRemoved
<1>2. IsTx(t2) /\ t2.ok = tx.ok /\ t2.op = a2
  <2> HIDE DEF y, z
  <2>1. t2 = Closed(tx, y, z) /\ a2 = ClosedAccounts(tx.op, y, z)
    BY DEF Closed, ClosedAccounts
  <2>2. IsTx(tx)
    BY DEF Sound
  <2> HIDE DEF t2, a2
  <2> QED
    BY <2>1, <2>2, ClosedIs
<1>3. tx.op \in Holdings
  BY DEF Sound
<1>4. /\ stake \in Int /\ tx.op.slashedIn[s] \in Int /\ tx.op.balance \in Nat
      /\ tx.op.totalStaked \in Int /\ tx.op.totalSlashed \in Int /\ ValueOf(tx.op) \in Int
      /\ Supply(tx.op) \in Nat
  BY <1>3, ValueIsInt, SupplyIsNat DEF Holdings
<1>5. /\ stake - tx.op.slashedIn[s] <= tx.op.totalStaked - tx.op.totalSlashed
      /\ 0 <= tx.op.slashedIn[s] /\ tx.op.slashedIn[s] <= stake
  BY <1>3, StakeIsPart DEF StakesSound
<1>6. /\ a2 \in Holdings /\ a2.balance = tx.op.balance /\ a2.tokens = tx.op.tokens
      /\ a2.totalStaked = y /\ a2.totalSlashed = z
  <2>1. y \in Int /\ z \in Int
    BY <1>4
  <2> HIDE DEF y
  <2>2. /\ a1 \in Holdings /\ a1.balance = tx.op.balance /\ a1.tokens = tx.op.tokens
        /\ a1.totalStaked = y
    BY <1>3, <2>1, NewTotalStaked
  <2> HIDE DEF a1, z
  <2> QED
    BY <2>1, <2>2, NewTotalSlashed
<1> HIDE DEF t1, t2, a1, a2
<1>7. /\ Sound(t2) /\ t2.ok
      /\ t2.op.tokens = tx.op.tokens /\ t2.op.balance = tx.op.balance
      /\ t2.op.totalSlashed <= t2.op.totalStaked
      /\ Supply(t2.op) = Supply(tx.op)
      /\ ValueOf(t2.op) = ValueOf(tx.op) - (stake - tx.op.slashedIn[s])
  <2>1. Sound(t2) /\ t2.ok
    BY <1>2, <1>6 DEF Sound
  <2>2. /\ t2.op.tokens = tx.op.tokens /\ t2.op.balance = tx.op.balance
        /\ t2.op.totalStaked = y /\ t2.op.totalSlashed = z
    BY <1>2, <1>6
  <2>3. ValueOf(t2.op) = ValueOf(tx.op) - (stake - tx.op.slashedIn[s])
    BY <1>4, <2>2 DEF ValueOf
  <2> QED
    BY <1>4, <1>5, <2>1, <2>2, <2>3 DEF Supply
<1> HIDE DEF y, z
<1>8. IsTx(result) /\ (result.ok => result.op \in Holdings)
  <2>1. CASE received < stake
    <3>1. result = Log(t2, loss)
      BY <2>1
    <3> HIDE DEF result, loss
    <3> QED
      BY <1>7, <3>1, LogKeeps DEF Sound
  <2>2. CASE ~(received < stake)
    <3> DEFINE earnings == received - stake
    <3>1. result = EarningsSplit(t2, earnings)
      BY <2>2
    <3>2. earnings \in Nat /\ earnings <= t2.op.balance
      BY <1>4, <1>5, <1>7, <2>2
    <3> HIDE DEF earnings, result
    <3> QED
      BY <1>7, <3>1, <3>2, EarningsSplitIs
  <2> QED
    BY <2>1, <2>2
<1>9. ASSUME result.ok
      PROVE  /\ OthersKeepTokens(tx.op, result.op)
             /\ received < stake => /\ result.op.tokens = tx.op.tokens
                                    /\ ValueOf(result.op) = ValueOf(t2.op)
             /\ received >= stake =>
                  \A x \in Int : x <= ValueOf(tx.op) - received + tx.op.slashedIn[s]
                                   => WorthAtLeast(x, tx.op, result.op)
  <2>1. CASE received < stake
    <3>1. result = Log(t2, loss)
      BY <2>1
    <3> HIDE DEF result, loss
    <3>2. result.op = t2.op
      BY <1>7, <3>1, LogKeeps DEF Sound
    <3>3. ~(received >= stake)
      BY <1>4, <2>1
    <3> QED
      BY <1>7, <3>2, <3>3 DEF OthersKeepTokens
  <2>2. CASE ~(received < stake)
    <3> DEFINE earnings == received - stake
    <3>1. result = EarningsSplit(t2, earnings)
      BY <2>2
    <3>2. earnings \in Nat /\ earnings <= t2.op.balance
      BY <1>4, <1>5, <1>7, <2>2
    <3>3. ASSUME NEW x \in Int, x <= ValueOf(tx.op) - received + tx.op.slashedIn[s]
          PROVE  x <= ValueOf(t2.op) - earnings
      BY <1>4, <1>7, <3>3
    <3> HIDE DEF earnings, result
    <3>4. Supply(t2.op) > 0
      BY <1>7, <2>2
    <3>5. /\ OthersKeepTokens(t2.op, result.op)
          /\ \A x \in Int : x <= ValueOf(t2.op) - earnings => WorthAtLeast(x, t2.op, result.op)
      BY <1>7, <1>9, <3>1, <3>2, <3>4, EarningsSplitWorth
    <3>6. ASSUME NEW x \in Int, x <= ValueOf(tx.op) - received + tx.op.slashedIn[s]
          PROVE  WorthAtLeast(x, tx.op, result.op)
      <4>1. WorthAtLeast(x, t2.op, result.op)
        BY <3>3, <3>5, <3>6
      <4> QED
        BY <1>7, <4>1 DEF WorthAtLeast
    <3>7. OthersKeepTokens(tx.op, result.op)
      BY <1>7, <3>5 DEF OthersKeepTokens
    <3> QED
      BY <2>2, <3>6, <3>7
  <2> QED
    BY <2>1, <2>2
<1> HIDE DEF result
<1>10. Sound(result)
  BY <1>8 DEF Sound
<1>11. /\ Sound(v) /\ v.ok = result.ok
       /\ result.ok => /\ SameStakes(result.op, v.op)
                       /\ v.op.balance = result.op.balance /\ v.op.tokens = result.op.tokens
  BY <1>10, VoterUpdatedIs
<1> HIDE DEF v
<1>12. IsTx(t5) /\ t5.ok = v.ok /\ t5.op = a5
  <2>1. IsTx(t3) /\ t3.ok = v.ok /\ t3.op = a3
    <3> HIDE DEF w
    <3> QED
      BY <1>11 DEF IsTx, Sound
  <2> HIDE DEF t3, a3
  <2>2. IsTx(t4) /\ t4.ok = v.ok /\ t4.op = a4
    BY <2>1 DEF IsTx
  <2> HIDE DEF t4, a4
  <2> QED
    BY <2>2 DEF IsTx
<1>13. ASSUME v.ok
       PROVE  /\ a5.tokens = result.op.tokens /\ ValueOf(a5) = ValueOf(result.op)
  <2>1. result.ok /\ v.op \in Holdings
    BY <1>11, <1>13 DEF Sound
  <2>2. w \in SUBSET Sponsorships
    BY <2>1 DEF Holdings
  <2> HIDE DEF w
  <2>3. /\ a3 \in Holdings /\ a3.tokens = v.op.tokens /\ a3.balance = v.op.balance
        /\ a3.totalStaked = v.op.totalStaked /\ a3.totalSlashed = v.op.totalSlashed
    BY <2>1, <2>2, NewSponsorships
  <2> HIDE DEF a3
  <2>4. /\ a4 \in Holdings /\ a4.tokens = a3.tokens /\ a4.balance = a3.balance
        /\ a4.totalStaked = a3.totalStaked /\ a4.totalSlashed = a3.totalSlashed
    BY <2>3, NewStakedInto
  <2> HIDE DEF a4
  <2>5. /\ a5.tokens = a4.tokens /\ a5.balance = a4.balance
        /\ a5.totalStaked = a4.totalStaked /\ a5.totalSlashed = a4.totalSlashed
    BY <2>4, NewSlashedIn
  <2> HIDE DEF a5
  <2>6. /\ a5.tokens = result.op.tokens /\ a5.balance = result.op.balance
        /\ a5.totalStaked = result.op.totalStaked /\ a5.totalSlashed = result.op.totalSlashed
    BY <1>11, <2>1, <2>3, <2>4, <2>5 DEF SameStakes
  <2> QED
    BY <2>6 DEF ValueOf
<1> HIDE DEF t5, a5, t
<1>14. t.op = t5.op /\ t.ok = t5.ok
  BY <1>1, <1>12, ReportsKeep
<1> SUFFICES ASSUME t.ok
             PROVE  /\ OthersKeepTokens(tx.op, t.op)
                    /\ received < stake =>
                         /\ t.op.tokens = tx.op.tokens
                         /\ ValueOf(t.op) = ValueOf(tx.op) - (stake - tx.op.slashedIn[s])
                    /\ received >= stake =>
                         \A x \in Int : x <= ValueOf(tx.op) - received + tx.op.slashedIn[s]
                                          => WorthAtLeast(x, tx.op, t.op)
  BY DEF t
<1>15. v.ok /\ result.ok
  BY <1>11, <1>12, <1>14
<1>16. t.op.tokens = result.op.tokens /\ ValueOf(t.op) = ValueOf(result.op)
  BY <1>12, <1>13, <1>14, <1>15
<1>17. Supply(t.op) = Supply(result.op)
  BY <1>16 DEF Supply
<1> HIDE DEF stake
<1>18. OthersKeepTokens(tx.op, t.op)
  BY <1>9, <1>15, <1>16 DEF OthersKeepTokens
<1>19. ASSUME received >= stake, NEW x \in Int,
              x <= ValueOf(tx.op) - received + tx.op.slashedIn[s]
       PROVE  WorthAtLeast(x, tx.op, t.op)
  <2>1. WorthAtLeast(x, tx.op, result.op)
    BY <1>9, <1>15, <1>19
  <2> QED
    BY <1>16, <1>17, <2>1 DEF WorthAtLeast
<1>20. ASSUME received < stake
       PROVE  /\ t.op.tokens = tx.op.tokens
              /\ ValueOf(t.op) = ValueOf(tx.op) - (stake - tx.op.slashedIn[s])
  BY <1>7, <1>9, <1>15, <1>16, <1>20
<1> QED
  BY <1>18, <1>19, <1>20

-----------------------------------------------------------------------------

\* What is slashed is written down, after the self-delegation has been burned.
Recorded(tx, s, x, y) ==
    LET t1 == [tx EXCEPT !.op.slashedIn[s] = x]
    IN  [t1 EXCEPT !.op.totalSlashed = y]

LEMMA RecordedIs ==
    ASSUME NEW tx, IsTx(tx), NEW s, NEW x, NEW y
    PROVE  LET t == Recorded(tx, s, x, y)
           IN  /\ IsTx(t) /\ t.ok = tx.ok
               /\ (tx.op \in Holdings /\ s \in Sponsorships /\ x \in Int /\ y \in Int) =>
                    /\ t.op \in Holdings /\ t.op.tokens = tx.op.tokens
                    /\ ValueOf(t.op) = ValueOf(tx.op) + tx.op.totalSlashed - y
<1> DEFINE a1 == [tx.op EXCEPT !.slashedIn[s] = x]
           a2 == [a1 EXCEPT !.totalSlashed = y]
           t1 == [tx EXCEPT !.op.slashedIn[s] = x]
           t2 == [t1 EXCEPT !.op.totalSlashed = y]
           t == Recorded(tx, s, x, y)
<1>1. IsTx(t1) /\ t1.ok = tx.ok /\ t1.op = a1
  BY DEF IsTx
<1>2. t = t2
  BY DEF Recorded
<1> HIDE DEF t1, a1
<1>3. IsTx(t2) /\ t2.ok = t1.ok /\ t2.op = a2
  BY <1>1 DEF IsTx
<1> HIDE DEF t2, t
<1>4. ASSUME tx.op \in Holdings, s \in Sponsorships, x \in Int, y \in Int
      PROVE  /\ t.op \in Holdings /\ t.op.tokens = tx.op.tokens
             /\ ValueOf(t.op) = ValueOf(tx.op) + tx.op.totalSlashed - y
  <2>1. /\ a1 \in Holdings /\ a1.tokens = tx.op.tokens /\ a1.balance = tx.op.balance
        /\ a1.totalStaked = tx.op.totalStaked
    BY <1>4, NewSlashedIn DEF a1
  <2>2. /\ a2 \in Holdings /\ a2.tokens = a1.tokens /\ a2.balance = a1.balance
        /\ a2.totalStaked = a1.totalStaked /\ a2.totalSlashed = y
    BY <1>4, <2>1, NewTotalSlashed
  <2> HIDE DEF a2
  <2>3. /\ t.op \in Holdings /\ t.op.tokens = tx.op.tokens /\ t.op.balance = tx.op.balance
        /\ t.op.totalStaked = tx.op.totalStaked /\ t.op.totalSlashed = y
    BY <1>2, <1>3, <2>1, <2>2
  <2>4. ValueOf(t.op) = tx.op.balance + tx.op.totalStaked - y
    BY <2>3 DEF ValueOf
  <2>5. /\ tx.op.balance \in Nat /\ tx.op.totalStaked \in Int /\ tx.op.totalSlashed \in Int
        /\ ValueOf(tx.op) = tx.op.balance + tx.op.totalStaked - tx.op.totalSlashed
    BY <1>4, ValueIsInt DEF ValueOf
  <2> QED
    BY <1>4, <2>3, <2>4, <2>5
<1> QED
  BY <1>1, <1>2, <1>3, <1>4 DEF t

\* The owner alone pays for what is slashed, as long as it has tokens left.
SlashesFairly(a, b, amount) ==
    /\ ValueOf(b) = ValueOf(a) - amount
    /\ OthersKeepTokens(a, b)
    /\ b.tokens[Owner] <= a.tokens[Owner] /\ Supply(b) <= Supply(a)
    /\ b.tokens[Owner] > 0 => WorthAtLeast(ValueOf(a), a, b)

LEMMA OnSlashRecords ==
    ASSUME NEW tx, Sound(tx), NEW s \in Sponsorships, NEW amount \in Nat \ {0},
           tx.ok => /\ StakesSound(tx.op) /\ s \in tx.op.sponsorships
                    /\ amount <= tx.op.stakedInto[s] - tx.op.slashedIn[s]
    PROVE  tx.ok => OnSlash(tx, s, amount).op.slashedIn # tx.op.slashedIn
<1> DEFINE t == OnSlash(tx, s, amount)
<1>1. /\ IsTx(t) /\ t.ok = tx.ok
      /\ t.ok => t.op.slashedIn = [tx.op.slashedIn EXCEPT ![s] = @ + amount]
  BY OnSlashIs
<1> HIDE DEF t
<1>2. tx.ok => tx.op.slashedIn \in [Sponsorships -> Int] /\ tx.op.slashedIn[s] \in Int
  BY DEF Sound, Holdings
<1>3. tx.ok => t.op.slashedIn[s] = tx.op.slashedIn[s] + amount
  BY <1>1, <1>2
<1> QED
  BY <1>2, <1>3 DEF t

LEMMA OnSlashWorth ==
    ASSUME NEW tx, Sound(tx), tx.ok, NEW s \in Sponsorships, NEW amount \in Nat \ {0},
           StakesSound(tx.op), s \in tx.op.sponsorships,
           amount <= tx.op.stakedInto[s] - tx.op.slashedIn[s]
    PROVE  SlashesFairly(tx.op, OnSlash(tx, s, amount).op, amount)
<1> DEFINE sd == SlashSelfDelegation(tx, amount)
           x == sd.op.slashedIn[s] + amount
           y == sd.op.totalSlashed + amount
           t2 == Recorded(sd, s, x, y)
           joined == s \in tx.op.sponsorships
           able == Require(t2, joined)
           after == OperatorValueUpdate(able)
           t == OnSlash(tx, s, amount)
<1>1. t = IF after.ok THEN after ELSE tx
  BY DEF OnSlash, Tried, Recorded
<1>2. tx.op \in Holdings
  BY DEF Sound
<1>3. ValueOf(tx.op) >= 0
  <2>1. ValueOf(tx.op) \in Nat
    BY <1>2, StakeIsPart
  <2> QED
    BY <2>1
<1>4. t.op.slashedIn # tx.op.slashedIn
  BY OnSlashRecords
<1>5. IsTx(sd) /\ (sd.ok => sd.op \in Holdings)
  BY <1>3, SlashSelfDelegationIs
<1>6. sd.ok => /\ ValueOf(sd.op) = ValueOf(tx.op)
               /\ OthersKeepTokens(tx.op, sd.op)
               /\ sd.op.tokens[Owner] <= tx.op.tokens[Owner]
               /\ Supply(sd.op) <= Supply(tx.op)
               /\ sd.op.tokens[Owner] > 0 =>
                    ValueOf(tx.op) * Supply(sd.op) <= (ValueOf(tx.op) - amount) * Supply(tx.op)
  BY <1>3, SlashSelfDelegationWorth
<1> HIDE DEF sd
<1>7. /\ IsTx(t2) /\ t2.ok = sd.ok
      /\ (sd.op \in Holdings /\ x \in Int /\ y \in Int) =>
           /\ t2.op \in Holdings /\ t2.op.tokens = sd.op.tokens
           /\ ValueOf(t2.op) = ValueOf(sd.op) + sd.op.totalSlashed - y
  <2> HIDE DEF x, y
  <2> QED
    BY <1>5, RecordedIs
<1> HIDE DEF t2
<1>8. IsTx(able) /\ able.op = t2.op /\ (able.ok => t2.ok)
  <2> HIDE DEF joined
  <2> QED
    BY <1>7 DEF Require, IsTx
<1> HIDE DEF able, t
<1>9. IsTx(after) /\ after.op = able.op /\ after.ok = able.ok
  BY <1>8, ReportsKeep
<1> HIDE DEF after
<1>10. t = after /\ after.ok
  BY <1>1, <1>4
<1>11. sd.ok
  BY <1>7, <1>8, <1>9, <1>10
<1>12. sd.op \in Holdings /\ x \in Int /\ y \in Int
  <2>1. sd.op \in Holdings
    BY <1>5, <1>11
  <2>2. sd.op.slashedIn \in [Sponsorships -> Int] /\ sd.op.totalSlashed \in Int
    BY <2>1 DEF Holdings
  <2>3. sd.op.slashedIn[s] \in Int
    BY <2>2
  <2> QED
    BY <2>1, <2>2, <2>3
<1>13. t.op.tokens = sd.op.tokens /\ ValueOf(t.op) = ValueOf(sd.op) + sd.op.totalSlashed - y
  BY <1>7, <1>8, <1>9, <1>10, <1>12
<1>14. ValueOf(t.op) = ValueOf(tx.op) - amount
  <2>1. sd.op.totalSlashed \in Int /\ ValueOf(sd.op) \in Int
    BY <1>12, ValueIsInt
  <2> QED
    BY <1>6, <1>11, <1>13, <2>1
<1>15. Supply(t.op) = Supply(sd.op)
  BY <1>13 DEF Supply
<1> QED
  BY <1>6, <1>11, <1>13, <1>14, <1>15 DEF SlashesFairly, OthersKeepTokens, WorthAtLeast, t

SlashedOnce(tx, t, s, amount) ==
    /\ Sound(t) /\ t.ok
    /\ t.op \in Holdings /\ StakesSound(t.op)
    /\ t.op.sponsorships = tx.op.sponsorships
    /\ t.op.stakedInto[s] = tx.op.stakedInto[s]
    /\ t.op.slashedIn[s] = tx.op.slashedIn[s] + amount

LEMMA OnSlashStep ==
    ASSUME NEW tx, Sound(tx), NEW s \in Sponsorships, NEW amount \in Nat \ {0},
           tx.ok => /\ StakesSound(tx.op) /\ s \in tx.op.sponsorships
                    /\ amount <= tx.op.stakedInto[s] - tx.op.slashedIn[s]
    PROVE  tx.ok => SlashedOnce(tx, OnSlash(tx, s, amount), s, amount)
<1> DEFINE t == OnSlash(tx, s, amount)
<1>1. /\ IsTx(t) /\ t.ok = tx.ok
      /\ t.ok => /\ t.op \in Holdings /\ StakesSound(t.op)
                 /\ t.op.sponsorships = tx.op.sponsorships
                 /\ t.op.stakedInto = tx.op.stakedInto
                 /\ t.op.slashedIn = [tx.op.slashedIn EXCEPT ![s] = @ + amount]
  BY OnSlashIs
<1> HIDE DEF t
<1>2. tx.ok => tx.op.slashedIn \in [Sponsorships -> Int] /\ tx.op.slashedIn[s] \in Int
  BY DEF Sound, Holdings
<1>3. tx.ok => t.op.slashedIn[s] = tx.op.slashedIn[s] + amount
  BY <1>1, <1>2
<1> QED
  BY <1>1, <1>3 DEF t, SlashedOnce, Sound

LEMMA OnSlashIsOnce ==
    ASSUME NEW tx, Sound(tx), tx.ok, NEW s \in Sponsorships, NEW amount \in Nat \ {0},
           StakesSound(tx.op), s \in tx.op.sponsorships,
           amount <= tx.op.stakedInto[s] - tx.op.slashedIn[s]
    PROVE  SlashedOnce(tx, OnSlash(tx, s, amount), s, amount)
  BY OnSlashStep

LEMMA SlashesNothing ==
    ASSUME NEW a \in Holdings
    PROVE  SlashesFairly(a, a, 0)
<1>1. Supply(a) \in Nat /\ ValueOf(a) \in Int /\ a.tokens[Owner] \in Int
  <2>1. a.tokens \in [Holders -> Nat]
    BY DEF Holdings
  <2>2. a.tokens[Owner] \in Nat
    BY <2>1, OperatorAssumption
  <2> QED
    BY <2>2, SupplyIsNat, ValueIsInt
<1>2. ValueOf(a) * Supply(a) \in Int
  BY <1>1
<1>3. WorthAtLeast(ValueOf(a), a, a)
  BY <1>2 DEF WorthAtLeast
<1>4. ValueOf(a) = ValueOf(a) - 0 /\ a.tokens[Owner] <= a.tokens[Owner] /\ Supply(a) <= Supply(a)
  BY <1>1
<1> QED
  BY <1>3, <1>4 DEF SlashesFairly, OthersKeepTokens

LEMMA SlashesChain ==
    ASSUME NEW a \in Holdings, NEW b \in Holdings, NEW c \in Holdings,
           NEW m \in Nat, NEW n \in Nat,
           ValueOf(a) >= 0, ValueOf(b) >= 0, ValueOf(c) >= 0,
           SlashesFairly(a, b, m), SlashesFairly(b, c, n)
    PROVE  SlashesFairly(a, c, m + n)
<1>1. /\ ValueOf(a) \in Nat /\ ValueOf(b) \in Nat /\ ValueOf(c) \in Nat
      /\ Supply(a) \in Nat /\ Supply(b) \in Nat /\ Supply(c) \in Nat
  BY ValueIsInt, SupplyIsNat
<1>2. /\ a.tokens[Owner] \in Nat /\ b.tokens[Owner] \in Nat /\ c.tokens[Owner] \in Nat
      /\ b.tokens[Owner] <= Supply(b)
  BY SupplyIsNat, OperatorAssumption DEF Holdings
<1>3. ValueOf(c) = ValueOf(a) - (m + n)
  BY <1>1 DEF SlashesFairly
<1>4. OthersKeepTokens(a, c)
  BY DEF SlashesFairly, OthersKeepTokens
<1>5. c.tokens[Owner] <= a.tokens[Owner] /\ Supply(c) <= Supply(a)
  BY <1>1, <1>2 DEF SlashesFairly
<1>6. ASSUME c.tokens[Owner] > 0 PROVE WorthAtLeast(ValueOf(a), a, c)
  <2>1. b.tokens[Owner] > 0 /\ Supply(b) \in Nat \ {0}
    BY <1>1, <1>2, <1>6 DEF SlashesFairly
  <2>2. /\ ValueOf(a) * Supply(b) <= ValueOf(b) * Supply(a)
        /\ ValueOf(b) * Supply(c) <= ValueOf(c) * Supply(b)
    BY <1>6, <2>1 DEF SlashesFairly, WorthAtLeast
  <2> QED
    BY <1>1, <2>1, <2>2, RatesChain DEF WorthAtLeast
<1> QED
  BY <1>3, <1>4, <1>5, <1>6 DEF SlashesFairly

LEMMA SlashedByWorth ==
    ASSUME NEW tx, Sound(tx), tx.ok, NEW s \in Sponsorships,
           NEW losses \in [locked : Nat, penalty : Nat],
           StakesSound(tx.op), s \in tx.op.sponsorships,
           losses.locked + losses.penalty <= tx.op.stakedInto[s] - tx.op.slashedIn[s]
    PROVE  SlashesFairly(tx.op, SlashedBy(tx, s, losses).op, losses.locked + losses.penalty)
<1> DEFINE m == losses.locked
           n == losses.penalty
           u == IF m = 0 THEN tx ELSE OnSlash(tx, s, m)
           t == IF n = 0 THEN u ELSE OnSlash(u, s, n)
<1>1. SlashedBy(tx, s, losses) = t
  BY DEF SlashedBy
<1>2. m \in Nat /\ n \in Nat
  OBVIOUS
<1>3. m + n <= tx.op.stakedInto[s] - tx.op.slashedIn[s]
  OBVIOUS
<1> HIDE DEF m, n
<1>4. /\ tx.op \in Holdings /\ tx.op.slashedIn \in [Sponsorships -> Int]
      /\ tx.op.slashedIn[s] \in Int /\ tx.op.stakedInto[s] \in Int
  BY DEF Sound, Holdings
<1>5. /\ Sound(u) /\ u.ok
      /\ u.op \in Holdings /\ StakesSound(u.op) /\ s \in u.op.sponsorships
      /\ n <= u.op.stakedInto[s] - u.op.slashedIn[s]
      /\ SlashesFairly(tx.op, u.op, m)
  <2>1. CASE m = 0
    <3>1. u = tx
      BY <2>1
    <3> HIDE DEF u
    <3>2. SlashesFairly(tx.op, u.op, m)
      BY <1>4, <2>1, <3>1, SlashesNothing
    <3>3. n <= u.op.stakedInto[s] - u.op.slashedIn[s]
      BY <1>2, <1>3, <1>4, <2>1, <3>1
    <3> QED
      BY <1>4, <3>1, <3>2, <3>3
  <2>2. CASE m # 0
    <3>1. m \in Nat \ {0} /\ m <= tx.op.stakedInto[s] - tx.op.slashedIn[s]
      BY <1>2, <1>3, <1>4, <2>2
    <3>2. u = OnSlash(tx, s, m)
      BY <2>2
    <3> HIDE DEF u
    <3>3. SlashesFairly(tx.op, u.op, m)
      BY <3>1, <3>2, OnSlashWorth
    <3>4. SlashedOnce(tx, u, s, m)
      BY <3>1, <3>2, OnSlashIsOnce
    <3>5. /\ u.op.sponsorships = tx.op.sponsorships
          /\ u.op.stakedInto[s] = tx.op.stakedInto[s]
          /\ u.op.slashedIn[s] = tx.op.slashedIn[s] + m
          /\ u.op \in Holdings /\ StakesSound(u.op)
      BY <3>4 DEF SlashedOnce
    <3>6. n <= u.op.stakedInto[s] - u.op.slashedIn[s]
      BY <1>2, <1>3, <1>4, <3>1, <3>5
    <3>7. Sound(u) /\ u.ok
      BY <3>4 DEF SlashedOnce
    <3> QED
      BY <3>3, <3>5, <3>6, <3>7
  <2> QED
    BY <2>1, <2>2
<1> HIDE DEF u
<1>6. t.op \in Holdings /\ ValueOf(t.op) >= 0 /\ SlashesFairly(u.op, t.op, n)
  <2>1. CASE n = 0
    <3>1. t = u
      BY <2>1
    <3> HIDE DEF t
    <3>2. SlashesFairly(u.op, t.op, n)
      BY <1>5, <2>1, <3>1, SlashesNothing
    <3>3. ValueOf(u.op) \in Nat
      BY <1>5, StakeIsPart
    <3> QED
      BY <1>5, <3>1, <3>2, <3>3
  <2>2. CASE n # 0
    <3>1. n \in Nat \ {0}
      BY <1>2, <2>2
    <3>2. t = OnSlash(u, s, n)
      BY <2>2
    <3> HIDE DEF t
    <3>3. SlashesFairly(u.op, t.op, n)
      BY <1>5, <3>1, <3>2, OnSlashWorth
    <3>4. SlashedOnce(u, t, s, n)
      BY <1>5, <3>1, <3>2, OnSlashIsOnce
    <3>5. t.op \in Holdings /\ StakesSound(t.op)
      BY <3>4 DEF SlashedOnce
    <3>6. ValueOf(t.op) \in Nat
      BY <3>5, StakeIsPart
    <3> QED
      BY <3>3, <3>5, <3>6
  <2> QED
    BY <2>1, <2>2
<1> HIDE DEF t
<1>7. ValueOf(tx.op) \in Nat /\ ValueOf(u.op) \in Nat
  BY <1>4, <1>5, StakeIsPart
<1>8. SlashesFairly(tx.op, t.op, m + n)
  BY <1>2, <1>4, <1>5, <1>6, <1>7, SlashesChain
<1> QED
  BY <1>1, <1>8 DEF m, n

-----------------------------------------------------------------------------

\* The owner has paid for so much of a's value with its tokens, if it has any left.
PaidByOwner(a, b, amount) ==
    /\ OthersKeepTokens(a, b) /\ Supply(b) <= Supply(a)
    /\ b.tokens[Owner] > 0 =>
         ValueOf(a) * Supply(b) <= (ValueOf(a) - amount) * Supply(a)

\* What RateIsKept says of a step
RateKept(a, b) == b.tokens[Owner] > 0 => WorthAtLeast(ValueOf(a), a, b)

LEMMA OthersStillHold ==
    ASSUME NEW a \in Holdings, NEW b \in Holdings, OthersHold(a), OthersKeepTokens(a, b)
    PROVE  Supply(b) \in Nat \ {0}
<1>1. OthersHold(b)
  BY DEF OthersHold, OthersKeepTokens
<1> QED
  BY <1>1, OthersHoldSupply

\* Leaving a Sponsorship: the owner has paid for what was lost there, or there is a
\* profit, and the slashing was taken back before it.
LEMMA LeavingKeepsRate ==
    ASSUME NEW a \in Holdings, ValueOf(a) >= 0, NEW lost \in Nat,
           NEW tx, Sound(tx), tx.ok, NEW s \in Sponsorships,
           NEW received \in Nat, received <= tx.op.balance,
           StakesSound(tx.op), Supply(tx.op) > 0,
           PaidByOwner(a, tx.op, lost),
           ValueOf(a) - lost <= ValueOf(tx.op) - (tx.op.stakedInto[s] - tx.op.slashedIn[s]),
           ValueOf(a) <= ValueOf(tx.op) - received + tx.op.slashedIn[s]
    PROVE  LET t == SponsorshipRemoved(tx, s, received)
           IN  (t.ok /\ t.op \in Holdings /\ ValueOf(t.op) >= 0) => RateKept(a, t.op)
<1> DEFINE t == SponsorshipRemoved(tx, s, received)
<1>1. t.ok => /\ received < tx.op.stakedInto[s] =>
                   /\ t.op.tokens = tx.op.tokens
                   /\ ValueOf(t.op) = ValueOf(tx.op) - (tx.op.stakedInto[s] - tx.op.slashedIn[s])
              /\ received >= tx.op.stakedInto[s] =>
                   \A v \in Int : v <= ValueOf(tx.op) - received + tx.op.slashedIn[s]
                                    => WorthAtLeast(v, tx.op, t.op)
  BY SponsorshipRemovedWorth
<1> HIDE DEF t
<1> SUFFICES ASSUME t.ok, t.op \in Holdings, ValueOf(t.op) >= 0, t.op.tokens[Owner] > 0
             PROVE  ValueOf(a) * Supply(t.op) <= ValueOf(t.op) * Supply(a)
  BY DEF t, RateKept, WorthAtLeast
<1>2. /\ tx.op \in Holdings /\ tx.op.stakedInto[s] \in Int /\ tx.op.slashedIn[s] \in Int
  BY DEF Sound, Holdings
<1>3. /\ ValueOf(a) \in Nat /\ ValueOf(t.op) \in Nat /\ ValueOf(tx.op) \in Int
      /\ Supply(a) \in Nat /\ Supply(t.op) \in Nat /\ Supply(tx.op) \in Nat
      /\ Supply(tx.op) <= Supply(a)
  BY <1>2, ValueIsInt, SupplyIsNat DEF PaidByOwner
<1>4. CASE received < tx.op.stakedInto[s]
  <2>1. t.op.tokens = tx.op.tokens /\ ValueOf(a) - lost <= ValueOf(t.op)
    BY <1>1, <1>4
  <2>2. Supply(t.op) = Supply(tx.op) /\ tx.op.tokens[Owner] > 0
    BY <2>1 DEF Supply
  <2>3. ValueOf(a) * Supply(t.op) <= (ValueOf(a) - lost) * Supply(a)
    BY <2>2 DEF PaidByOwner
  <2> DEFINE x == ValueOf(a) - lost
             y == ValueOf(t.op)
             z == Supply(a)
             left == ValueOf(a) * Supply(t.op)
  <2>4. x \in Int /\ y \in Nat /\ z \in Nat /\ x <= y /\ left <= x * z /\ left \in Int
    BY <1>3, <2>1, <2>3
  <2> HIDE DEF x, y, z, left
  <2>5. left <= y * z
    BY <2>4
  <2> QED
    BY <2>5 DEF left, y, z
<1>5. CASE received >= tx.op.stakedInto[s]
  <2>1. WorthAtLeast(ValueOf(a), tx.op, t.op)
    BY <1>1, <1>3, <1>5
  <2>2. ValueOf(a) * Supply(t.op) <= ValueOf(t.op) * Supply(tx.op)
    BY <2>1 DEF WorthAtLeast
  <2> DEFINE y == ValueOf(t.op)
             x == Supply(tx.op)
             z == Supply(a)
             left == ValueOf(a) * Supply(t.op)
  <2>3. x \in Nat /\ y \in Nat /\ z \in Nat /\ x <= z /\ left <= y * x /\ left \in Int
    BY <1>3, <2>2
  <2> HIDE DEF x, y, z, left
  <2>4. left <= y * z
    BY <2>3
  <2> QED
    BY <2>4 DEF left, y, z
<1> QED
  BY <1>2, <1>4, <1>5

LEMMA ReturnedWorth ==
    ASSUME StakesInv, NEW s \in DOMAIN stakeAt, NEW losses \in LeaveSlashings(stakeAt[s]),
           NEW received \in Nat
    PROVE  LET slashed == SlashedBy(Begin(op), s, losses)
               t == [slashed EXCEPT !.op.balance = @ + received]
               lost == losses.locked + losses.penalty
           IN  /\ t.ok /\ t.op \in Holdings
               /\ PaidByOwner(op, t.op, lost)
               /\ ValueOf(t.op) = ValueOf(op) - lost + received
<1>1. op \in Holdings /\ StakesSound(op)
  BY DEF StakesInv
<1>2. /\ s \in Sponsorships /\ s \in op.sponsorships
      /\ stakeAt[s] = op.stakedInto[s] - op.slashedIn[s]
  BY JoinedIs
<1>3. /\ losses \in [locked : Nat, penalty : Nat]
      /\ losses.locked + losses.penalty <= stakeAt[s]
  BY BoundsAssumption DEF LeaveSlashings
<1> DEFINE b == Begin(op)
           u == SlashedBy(b, s, losses)
           x == u.op.balance + received
           t == [u EXCEPT !.op.balance = x]
           lost == losses.locked + losses.penalty
<1>4. Sound(b) /\ b.op = op /\ b.ok
  BY <1>1, BeginIs
<1> HIDE DEF b
<1>5. IsTx(u) /\ u.ok = b.ok /\ (u.ok => u.op \in Holdings)
  BY <1>1, <1>2, <1>3, <1>4, SlashedByIs
<1>6. SlashesFairly(b.op, u.op, lost)
  BY <1>1, <1>2, <1>3, <1>4, SlashedByWorth
<1> HIDE DEF u
<1>7. SlashesFairly(op, u.op, lost) /\ u.ok /\ u.op \in Holdings
  BY <1>4, <1>5, <1>6
<1>8. x \in Nat /\ u.op.balance \in Nat
  BY <1>7 DEF Holdings
<1>9. IsTx(t) /\ t.ok = u.ok /\ t.op = [u.op EXCEPT !.balance = x]
  <2> HIDE DEF x
  <2> QED
    BY <1>5, BalanceTx
<1>10. t = [u EXCEPT !.op.balance = @ + received]
  OBVIOUS
<1> HIDE DEF t
<1>11. /\ t.op \in Holdings /\ t.op.tokens = u.op.tokens /\ t.op.balance = x
       /\ SameStakes(u.op, t.op)
  <2> HIDE DEF x
  <2> QED
    BY <1>7, <1>8, <1>9, NewBalance
<1>12. ValueOf(t.op) = ValueOf(u.op) + received
  <2>1. ValueOf(t.op) = u.op.balance + received + u.op.totalStaked - u.op.totalSlashed
    BY <1>11 DEF ValueOf, SameStakes
  <2>2. u.op.totalStaked \in Int /\ u.op.totalSlashed \in Int
    BY <1>7, ValueIsInt
  <2> QED
    BY <1>8, <2>1, <2>2 DEF ValueOf
<1>13. ValueOf(op) \in Int /\ lost \in Int
  BY <1>1, <1>3, ValueIsInt
<1> HIDE DEF lost
<1>14. ValueOf(t.op) = ValueOf(op) - lost + received
  BY <1>7, <1>12, <1>13 DEF SlashesFairly
<1>15. PaidByOwner(op, t.op, lost)
  BY <1>7, <1>11 DEF SlashesFairly, PaidByOwner, OthersKeepTokens, WorthAtLeast, Supply
<1> QED
  BY <1>7, <1>9, <1>10, <1>11, <1>14, <1>15 DEF lost, u, b

\* What onKick burns: at the value without what the Sponsorship has sent.
Punished(tx, amount, received) ==
    LET without == [tx EXCEPT !.op.totalSlashed = @ + received]
    IN  [SlashSelfDelegation(without, amount) EXCEPT !.op.totalSlashed = @ - received]

LEMMA PunishedWorth ==
    ASSUME NEW tx, Sound(tx), NEW amount \in Nat, NEW received \in Nat,
           tx.ok => ValueOf(tx.op) - received >= 0
    PROVE  LET t == Punished(tx, amount, received)
           IN  /\ IsTx(t)
               /\ t.ok => /\ tx.ok /\ t.op \in Holdings /\ SameStakes(tx.op, t.op)
                          /\ t.op.balance = tx.op.balance
                          /\ OthersKeepTokens(tx.op, t.op)
                          /\ t.op.tokens[Owner] <= tx.op.tokens[Owner]
                          /\ Supply(t.op) <= Supply(tx.op)
                          /\ t.op.tokens[Owner] > 0 =>
                               (ValueOf(tx.op) - received) * Supply(t.op)
                                 <= (ValueOf(tx.op) - received - amount) * Supply(tx.op)
<1> DEFINE x == tx.op.totalSlashed + received
           without == [tx EXCEPT !.op.totalSlashed = x]
           sd == SlashSelfDelegation(without, amount)
           y == sd.op.totalSlashed - received
           burned == [sd EXCEPT !.op.totalSlashed = y]
           t == Punished(tx, amount, received)
<1>1. t = burned
  BY DEF Punished
<1>2. IsTx(without) /\ without.ok = tx.ok /\ without.op = [tx.op EXCEPT !.totalSlashed = x]
  <2> HIDE DEF x
  <2> QED
    BY DEF IsTx, Sound
<1>3. ASSUME tx.ok
      PROVE  /\ tx.op \in Holdings
             /\ without.op \in Holdings /\ without.op.totalSlashed = x
             /\ without.op.balance = tx.op.balance
             /\ without.op.totalStaked = tx.op.totalStaked
             /\ without.op.stakedInto = tx.op.stakedInto
             /\ without.op.slashedIn = tx.op.slashedIn
             /\ without.op.sponsorships = tx.op.sponsorships
             /\ without.op.tokens = tx.op.tokens
             /\ ValueOf(without.op) = ValueOf(tx.op) - received
  <2>1. tx.op \in Holdings
    BY <1>3 DEF Sound
  <2>2. tx.op.balance \in Nat /\ tx.op.totalStaked \in Int /\ tx.op.totalSlashed \in Int
    BY <2>1, ValueIsInt
  <2>3. x \in Int
    BY <2>2
  <2> HIDE DEF without, x
  <2>4. /\ without.op \in Holdings /\ without.op.totalSlashed = x
        /\ without.op.balance = tx.op.balance
        /\ without.op.totalStaked = tx.op.totalStaked
        /\ without.op.stakedInto = tx.op.stakedInto
        /\ without.op.slashedIn = tx.op.slashedIn
        /\ without.op.sponsorships = tx.op.sponsorships
        /\ without.op.tokens = tx.op.tokens
    BY <1>2, <2>1, <2>3, NewTotalSlashed
  <2>5. ValueOf(without.op) = ValueOf(tx.op) - received
    BY <2>2, <2>4 DEF ValueOf, x
  <2> QED
    BY <2>1, <2>4, <2>5
<1> HIDE DEF without
<1>4. Sound(without) /\ (without.ok => ValueOf(without.op) >= 0)
  BY <1>2, <1>3 DEF Sound
<1>5. /\ IsTx(sd)
      /\ sd.ok => /\ without.ok /\ sd.op \in Holdings /\ SameStakes(without.op, sd.op)
                  /\ sd.op.balance = without.op.balance
  BY <1>4, SlashSelfDelegationIs
<1>6. without.ok => (sd.ok =>
        /\ OthersKeepTokens(without.op, sd.op)
        /\ sd.op.tokens[Owner] <= without.op.tokens[Owner]
        /\ Supply(sd.op) <= Supply(without.op)
        /\ sd.op.tokens[Owner] > 0 =>
             ValueOf(without.op) * Supply(sd.op)
               <= (ValueOf(without.op) - amount) * Supply(without.op))
  BY <1>4, SlashSelfDelegationWorth
<1> HIDE DEF sd
<1>7. IsTx(burned) /\ burned.ok = sd.ok /\ burned.op = [sd.op EXCEPT !.totalSlashed = y]
  <2> HIDE DEF y
  <2> QED
    BY <1>5 DEF IsTx
<1>8. ASSUME sd.ok
      PROVE  /\ burned.op \in Holdings /\ SameStakes(tx.op, burned.op)
             /\ burned.op.balance = tx.op.balance /\ tx.ok
             /\ burned.op.tokens = sd.op.tokens
  <2>1. tx.ok
    BY <1>2, <1>5, <1>8
  <2>2. /\ sd.op \in Holdings /\ sd.op.totalSlashed = x
        /\ sd.op.balance = tx.op.balance
        /\ sd.op.totalStaked = tx.op.totalStaked
        /\ sd.op.stakedInto = tx.op.stakedInto
        /\ sd.op.slashedIn = tx.op.slashedIn
        /\ sd.op.sponsorships = tx.op.sponsorships
    BY <1>3, <1>5, <1>8, <2>1 DEF SameStakes
  <2>3. y = tx.op.totalSlashed /\ y \in Int
    <3>1. tx.op.totalSlashed \in Int
      BY <1>3, <2>1, ValueIsInt
    <3> QED
      BY <2>2, <3>1
  <2> HIDE DEF y, burned
  <2>4. /\ burned.op \in Holdings /\ burned.op.balance = sd.op.balance
        /\ burned.op.stakedInto = sd.op.stakedInto /\ burned.op.slashedIn = sd.op.slashedIn
        /\ burned.op.totalStaked = sd.op.totalStaked /\ burned.op.totalSlashed = y
        /\ burned.op.sponsorships = sd.op.sponsorships
        /\ burned.op.tokens = sd.op.tokens
    BY <1>7, <2>2, <2>3, NewTotalSlashed
  <2> QED
    BY <2>1, <2>2, <2>3, <2>4 DEF SameStakes
<1> HIDE DEF burned, t
<1>9. IsTx(t) /\ t.ok = sd.ok /\ t.op = burned.op
  BY <1>1, <1>7
<1>10. ASSUME t.ok
       PROVE  /\ tx.ok /\ t.op \in Holdings /\ SameStakes(tx.op, t.op)
              /\ t.op.balance = tx.op.balance
              /\ OthersKeepTokens(tx.op, t.op)
              /\ t.op.tokens[Owner] <= tx.op.tokens[Owner]
              /\ Supply(t.op) <= Supply(tx.op)
              /\ t.op.tokens[Owner] > 0 =>
                   (ValueOf(tx.op) - received) * Supply(t.op)
                     <= (ValueOf(tx.op) - received - amount) * Supply(tx.op)
  <2>1. sd.ok /\ tx.ok /\ without.ok
    BY <1>5, <1>8, <1>9, <1>10
  <2>2. /\ t.op \in Holdings /\ SameStakes(tx.op, t.op) /\ t.op.balance = tx.op.balance
        /\ t.op.tokens = sd.op.tokens /\ Supply(t.op) = Supply(sd.op)
    BY <1>8, <1>9, <2>1 DEF Supply
  <2>3. without.op.tokens = tx.op.tokens /\ Supply(without.op) = Supply(tx.op)
        /\ ValueOf(without.op) = ValueOf(tx.op) - received
    BY <1>3, <2>1 DEF Supply
  <2>4. /\ OthersKeepTokens(without.op, sd.op)
        /\ sd.op.tokens[Owner] <= without.op.tokens[Owner]
        /\ Supply(sd.op) <= Supply(without.op)
        /\ sd.op.tokens[Owner] > 0 =>
             ValueOf(without.op) * Supply(sd.op)
               <= (ValueOf(without.op) - amount) * Supply(without.op)
    BY <1>6, <2>1
  <2> QED
    BY <2>1, <2>2, <2>3, <2>4 DEF OthersKeepTokens
<1> QED
  BY <1>9, <1>10 DEF t

\* The owner pays for what was lost before and for what it is kicked for.
LEMMA PunishmentIsPaid ==
    ASSUME NEW a \in Holdings, ValueOf(a) >= 0, NEW lost \in Nat, OthersHold(a),
           NEW tx, Sound(tx), tx.ok, NEW amount \in Nat, NEW received \in Nat,
           PaidByOwner(a, tx.op, lost), ValueOf(tx.op) = ValueOf(a) - lost + received,
           lost + amount <= ValueOf(a)
    PROVE  LET t == Punished(tx, amount, received)
           IN  t.ok => /\ t.op \in Holdings /\ SameStakes(tx.op, t.op)
                       /\ t.op.balance = tx.op.balance
                       /\ ValueOf(t.op) = ValueOf(tx.op)
                       /\ PaidByOwner(a, t.op, lost + amount)
<1> DEFINE t == Punished(tx, amount, received)
<1>1. tx.op \in Holdings
  BY DEF Sound
<1>2. /\ ValueOf(a) \in Nat /\ Supply(a) \in Nat
      /\ ValueOf(tx.op) \in Int /\ Supply(tx.op) \in Nat \ {0}
  BY <1>1, ValueIsInt, SupplyIsNat, OthersStillHold DEF PaidByOwner
<1>3. ValueOf(tx.op) - received = ValueOf(a) - lost /\ ValueOf(tx.op) - received >= 0
      /\ ValueOf(tx.op) - received - amount = ValueOf(a) - (lost + amount)
  BY <1>2
<1>4. t.ok => /\ t.op \in Holdings /\ SameStakes(tx.op, t.op)
              /\ t.op.balance = tx.op.balance
              /\ OthersKeepTokens(tx.op, t.op)
              /\ t.op.tokens[Owner] <= tx.op.tokens[Owner]
              /\ Supply(t.op) <= Supply(tx.op)
              /\ t.op.tokens[Owner] > 0 =>
                   (ValueOf(tx.op) - received) * Supply(t.op)
                     <= (ValueOf(tx.op) - received - amount) * Supply(tx.op)
  BY <1>3, PunishedWorth
<1> HIDE DEF t
<1> SUFFICES ASSUME t.ok
             PROVE  /\ t.op \in Holdings /\ SameStakes(tx.op, t.op)
                    /\ t.op.balance = tx.op.balance
                    /\ ValueOf(t.op) = ValueOf(tx.op)
                    /\ PaidByOwner(a, t.op, lost + amount)
  BY DEF t
<1>5. ValueOf(t.op) = ValueOf(tx.op)
  BY <1>4 DEF ValueOf, SameStakes
<1>6. Supply(t.op) \in Nat /\ Supply(t.op) <= Supply(a)
  BY <1>2, <1>4, SupplyIsNat DEF PaidByOwner
<1>7. OthersKeepTokens(a, t.op)
  BY <1>4 DEF PaidByOwner, OthersKeepTokens
<1>8. ASSUME t.op.tokens[Owner] > 0
      PROVE  ValueOf(a) * Supply(t.op) <= (ValueOf(a) - (lost + amount)) * Supply(a)
  <2>1. t.op.tokens[Owner] \in Nat /\ tx.op.tokens[Owner] \in Nat
    BY <1>1, <1>4, OperatorAssumption DEF Holdings
  <2>2. tx.op.tokens[Owner] > 0
    BY <1>4, <1>8, <2>1
  <2> DEFINE V1 == ValueOf(a)
             S1 == Supply(a)
             V2 == ValueOf(a) - lost
             S2 == Supply(tx.op)
             V3 == ValueOf(a) - (lost + amount)
             S3 == Supply(t.op)
  <2>3. V1 * S2 <= V2 * S1
    BY <2>2 DEF PaidByOwner
  <2>4. V2 * S3 <= V3 * S2
    BY <1>3, <1>4, <1>8
  <2>5. /\ V1 \in Nat /\ S1 \in Nat /\ V2 \in Nat /\ S2 \in Nat \ {0} /\ V3 \in Nat /\ S3 \in Nat
    BY <1>2, <1>6
  <2> HIDE DEF V1, V2, V3, S1, S2, S3
  <2>6. V1 * S3 <= V3 * S1
    BY <2>3, <2>4, <2>5, RatesChain
  <2> QED
    BY <2>6 DEF V1, V3, S1, S3
<1> QED
  BY <1>4, <1>5, <1>6, <1>7, <1>8 DEF PaidByOwner

LEMMA OnKickRemoves ==
    ASSUME NEW tx, Sound(tx), NEW s \in Sponsorships, NEW slashed \in Nat, NEW received \in Nat,
           tx.ok => /\ StakesSound(tx.op) /\ s \in tx.op.sponsorships
                    /\ received <= tx.op.balance
                    /\ slashed <= tx.op.stakedInto[s] - tx.op.slashedIn[s]
    PROVE  LET t == OnKick(tx, s, slashed, received)
           IN  tx.ok => /\ t.ok /\ t.op \in Holdings /\ StakesSound(t.op)
                        /\ t.op.sponsorships # tx.op.sponsorships
<1> DEFINE t == OnKick(tx, s, slashed, received)
<1> HIDE DEF t
<1>1. /\ IsTx(t) /\ t.ok = tx.ok
      /\ t.ok => /\ t.op \in Holdings /\ StakesSound(t.op)
                 /\ t.op.sponsorships = tx.op.sponsorships \ {s}
                 /\ t.op.stakedInto = [tx.op.stakedInto EXCEPT ![s] = 0]
                 /\ t.op.slashedIn = [tx.op.slashedIn EXCEPT ![s] = 0]
  BY OnKickIs DEF t
<1>2. tx.ok => s \in tx.op.sponsorships /\ s \notin tx.op.sponsorships \ {s}
  OBVIOUS
<1> QED
  BY <1>1, <1>2 DEF t

LEMMA TriedIs ==
    ASSUME NEW before, NEW after, Tried(before, after) # before
    PROVE  Tried(before, after) = after /\ after.ok
  BY DEF Tried

LEMMA OnKickWorth ==
    ASSUME NEW a \in Holdings, ValueOf(a) >= 0, NEW lost \in Nat, OthersHold(a),
           NEW tx, Sound(tx), tx.ok, NEW s \in Sponsorships,
           NEW slashed \in Nat, NEW received \in Nat,
           StakesSound(tx.op), s \in tx.op.sponsorships, received <= tx.op.balance,
           slashed <= tx.op.stakedInto[s] - tx.op.slashedIn[s],
           PaidByOwner(a, tx.op, lost), ValueOf(tx.op) = ValueOf(a) - lost + received,
           tx.op.stakedInto[s] - tx.op.slashedIn[s] <= received + slashed,
           lost + slashed <= ValueOf(a), lost <= tx.op.slashedIn[s]
    PROVE  RateKept(a, OnKick(tx, s, slashed, received).op)
<1> DEFINE burned == Punished(tx, slashed, received)
           punished == IF slashed > 0 THEN burned ELSE tx
           joined == s \in tx.op.sponsorships
           able == Require(punished, joined)
           after == SponsorshipRemoved(able, s, received)
           t == OnKick(tx, s, slashed, received)
<1>1. t = IF after.ok THEN after ELSE tx
  BY DEF OnKick, Tried, Punished
<1>2. t.ok /\ t.op \in Holdings /\ StakesSound(t.op) /\ t.op.sponsorships # tx.op.sponsorships
  <2> HIDE DEF able, after, punished, burned
  <2>1. tx.ok => /\ t.ok /\ t.op \in Holdings /\ StakesSound(t.op)
                 /\ t.op.sponsorships # tx.op.sponsorships
    BY OnKickRemoves
  <2> HIDE DEF t
  <2> QED
    BY <2>1
<1> HIDE DEF t
<1>3. t = after /\ after.ok
  <2> HIDE DEF able, after, punished, burned
  <2>1. t.op.sponsorships # tx.op.sponsorships
    BY <1>2
  <2>2. t = Tried(tx, after) /\ t # tx
    BY <1>1, <2>1 DEF Tried
  <2> QED
    BY <2>2, TriedIs
<1>4. /\ tx.op \in Holdings /\ tx.op.stakedInto[s] \in Int /\ tx.op.slashedIn[s] \in Int
      /\ tx.op.balance \in Nat /\ ValueOf(a) \in Nat /\ ValueOf(tx.op) \in Int
  <2> HIDE DEF able, after, punished, burned
  <2>1. tx.op \in Holdings
    BY DEF Sound
  <2>2. tx.op.stakedInto[s] \in Int /\ tx.op.slashedIn[s] \in Int
    BY <2>1 DEF Holdings
  <2>3. tx.op.balance \in Nat /\ ValueOf(a) \in Int /\ ValueOf(tx.op) \in Int
    BY <2>1, ValueIsInt
  <2> QED
    BY <2>1, <2>2, <2>3
<1>5. IsTx(burned) /\ (burned.ok => /\ burned.op \in Holdings /\ SameStakes(tx.op, burned.op)
                                    /\ burned.op.balance = tx.op.balance
                                    /\ ValueOf(burned.op) = ValueOf(tx.op)
                                    /\ PaidByOwner(a, burned.op, lost + slashed))
  <2>1. ValueOf(tx.op) - received >= 0
    BY <1>4
  <2>2. IsTx(burned)
    BY <2>1, PunishedWorth
  <2>3. burned.ok => /\ burned.op \in Holdings /\ SameStakes(tx.op, burned.op)
                     /\ burned.op.balance = tx.op.balance
                     /\ ValueOf(burned.op) = ValueOf(tx.op)
                     /\ PaidByOwner(a, burned.op, lost + slashed)
    BY PunishmentIsPaid
  <2> QED
    BY <2>2, <2>3
<1> HIDE DEF burned
<1>6. IsTx(punished) /\ (punished.ok => /\ punished.op \in Holdings
                                        /\ SameStakes(tx.op, punished.op)
                                        /\ punished.op.balance = tx.op.balance
                                        /\ ValueOf(punished.op) = ValueOf(tx.op)
                                        /\ PaidByOwner(a, punished.op, lost + slashed))
  <2>1. CASE slashed > 0
    <3>1. punished = burned
      BY <2>1
    <3> HIDE DEF punished
    <3> QED
      BY <1>5, <3>1
  <2>2. CASE ~(slashed > 0)
    <3>1. punished = tx /\ lost + slashed = lost
      BY <2>2
    <3> HIDE DEF punished
    <3>2. IsTx(punished) /\ SameStakes(tx.op, punished.op)
      BY <3>1 DEF Sound, SameStakes
    <3> QED
      BY <1>4, <3>1, <3>2
  <2> QED
    BY <2>1, <2>2
<1> HIDE DEF punished
<1>7. IsTx(able) /\ able.op = punished.op /\ (able.ok => punished.ok)
  <2> HIDE DEF joined
  <2> QED
    BY <1>6 DEF Require, IsTx
<1> HIDE DEF able
<1>8. able.ok => /\ able.op \in Holdings /\ SameStakes(tx.op, able.op)
                 /\ able.op.balance = tx.op.balance
                 /\ ValueOf(able.op) = ValueOf(tx.op)
                 /\ PaidByOwner(a, able.op, lost + slashed)
                 /\ StakesSound(able.op)
  BY <1>6, <1>7, SameStakesAreSound
<1>9. Sound(able) /\ (able.ok => /\ received \in Nat /\ received <= able.op.balance
                                 /\ StakesSound(able.op))
  BY <1>7, <1>8 DEF Sound
<1>10. after.ok => able.ok
  <2> HIDE DEF after
  <2> QED
    BY <1>9, SponsorshipRemovedIs DEF after
<1>11. /\ able.ok /\ able.op \in Holdings /\ received <= able.op.balance
       /\ able.op.stakedInto[s] = tx.op.stakedInto[s]
       /\ able.op.slashedIn[s] = tx.op.slashedIn[s]
       /\ ValueOf(able.op) = ValueOf(tx.op)
       /\ PaidByOwner(a, able.op, lost + slashed) /\ StakesSound(able.op)
  BY <1>3, <1>8, <1>9, <1>10 DEF SameStakes
<1>12. Supply(able.op) > 0
  <2>1. Supply(able.op) \in Nat \ {0}
    BY <1>11, OthersStillHold DEF PaidByOwner
  <2> QED
    BY <2>1
<1>13. ValueOf(a) - (lost + slashed)
         <= ValueOf(able.op) - (able.op.stakedInto[s] - able.op.slashedIn[s])
  BY <1>4, <1>11
<1>14. ValueOf(a) <= ValueOf(able.op) - received + able.op.slashedIn[s]
  BY <1>4, <1>11
<1>15. ValueOf(t.op) >= 0
  <2>1. ValueOf(t.op) \in Nat
    BY <1>2, StakeIsPart
  <2> QED
    BY <2>1
<1> DEFINE paid == lost + slashed
<1>16. paid \in Nat /\ PaidByOwner(a, able.op, paid)
       /\ ValueOf(a) - paid <= ValueOf(able.op) - (able.op.stakedInto[s] - able.op.slashedIn[s])
  BY <1>11, <1>13
<1> HIDE DEF paid, after
<1>17. (after.ok /\ after.op \in Holdings /\ ValueOf(after.op) >= 0) => RateKept(a, after.op)
  BY <1>9, <1>11, <1>12, <1>14, <1>16, LeavingKeepsRate DEF after
<1> QED
  BY <1>2, <1>3, <1>15, <1>17 DEF t

\* More value for the same tokens
LEMMA MoreValueKeepsRate ==
    ASSUME NEW a \in Holdings, NEW b \in Holdings,
           b.tokens = a.tokens, ValueOf(a) <= ValueOf(b)
    PROVE  RateKept(a, b)
<1> DEFINE S == Supply(a)
           v == ValueOf(a)
           w == ValueOf(b)
<1>1. S \in Nat /\ v \in Int /\ w \in Int /\ v <= w
  BY SupplyIsNat, ValueIsInt
<1>2. Supply(b) = S
  BY DEF Supply
<1> HIDE DEF S, v, w
<1>3. v * S <= w * S
  BY <1>1
<1> QED
  BY <1>2, <1>3 DEF RateKept, WorthAtLeast, S, v, w

\* An outsider's reward is burned from the owner before it is sent.
LEMMA FishermanRewardWorth ==
    ASSUME NEW tx, Sound(tx), tx.ok, ValueOf(tx.op) >= 0,
           NEW valueBefore, NEW earnings \in Nat
    PROVE  LET t == FishermanReward(tx, valueBefore, earnings)
           IN  (t.ok /\ t.op \in Holdings) =>
                 /\ t.op.tokens[Owner] <= tx.op.tokens[Owner]
                 /\ RateKept(tx.op, t.op)
<1> DEFINE reward == (earnings * FishermanFraction) \div Ether
           slashed == SlashSelfDelegation(tx, reward)
           enough == reward <= slashed.op.balance
           able == Require(slashed, enough)
           x == able.op.balance - reward
           sent == [able EXCEPT !.op.balance = x]
           tooMuch == earnings > (valueBefore * AllowedEarningsFraction) \div Ether
           after == OperatorValueUpdate(sent)
           t == FishermanReward(tx, valueBefore, earnings)
<1>1. t = IF tooMuch THEN after ELSE tx
  BY DEF FishermanReward
<1>2. reward \in Nat
  <2>1. FishermanFraction \in 0 .. Ether
    BY OperatorAssumption
  <2>2. reward \in 0 .. earnings
    BY <2>1, FractionIsPart
  <2> QED
    BY <2>2
<1> HIDE DEF reward, tooMuch
<1>3. tx.op \in Holdings
  BY DEF Sound
<1>4. /\ IsTx(slashed)
      /\ slashed.ok => slashed.op \in Holdings
  BY <1>2, SlashSelfDelegationIs
<1>5. slashed.ok => /\ ValueOf(slashed.op) = ValueOf(tx.op)
                    /\ slashed.op.tokens[Owner] <= tx.op.tokens[Owner]
                    /\ slashed.op.tokens[Owner] > 0 =>
                         ValueOf(tx.op) * Supply(slashed.op)
                           <= (ValueOf(tx.op) - reward) * Supply(tx.op)
  BY <1>2, SlashSelfDelegationWorth
<1> HIDE DEF slashed
<1>6. IsTx(able) /\ able.op = slashed.op /\ (able.ok => slashed.ok /\ enough)
  <2> HIDE DEF enough
  <2> QED
    BY <1>4 DEF Require, IsTx
<1> HIDE DEF able
<1>7. IsTx(sent) /\ sent.ok = able.ok /\ sent.op = [able.op EXCEPT !.balance = x]
  <2> HIDE DEF x
  <2> QED
    BY <1>6, BalanceTx
<1> HIDE DEF sent, t
<1>8. IsTx(after) /\ after.op = sent.op /\ after.ok = sent.ok
  BY <1>7, ReportsKeep
<1> HIDE DEF after
<1>9. CASE ~tooMuch
  <2>1. t.op = tx.op
    BY <1>1, <1>9
  <2>2. tx.op.tokens[Owner] \in Nat
    BY <1>3, OperatorAssumption DEF Holdings
  <2>3. ValueOf(tx.op) \in Int
    BY <1>3, ValueIsInt
  <2>4. RateKept(tx.op, t.op)
    BY <1>3, <2>1, <2>3, MoreValueKeepsRate
  <2> QED
    BY <2>1, <2>2, <2>4 DEF t
<1>10. CASE tooMuch
  <2> SUFFICES ASSUME t.ok, t.op \in Holdings
               PROVE  t.op.tokens[Owner] <= tx.op.tokens[Owner] /\ RateKept(tx.op, t.op)
    BY DEF t
  <2>1. t = after
    BY <1>1, <1>10
  <2>2. able.ok /\ slashed.ok
    BY <1>6, <1>7, <1>8, <2>1
  <2>3. /\ able.op = slashed.op /\ slashed.op \in Holdings /\ x \in Nat
        /\ slashed.op.balance \in Nat /\ x = slashed.op.balance - reward
    <3>1. able.op = slashed.op /\ slashed.op \in Holdings
      BY <1>4, <1>6, <2>2
    <3>2. slashed.op.balance \in Nat
      BY <3>1, ValueIsInt
    <3>3. reward <= slashed.op.balance
      BY <1>6, <2>2
    <3>4. x = slashed.op.balance - reward
      BY <3>1
    <3> QED
      BY <1>2, <3>1, <3>2, <3>3, <3>4
  <2> HIDE DEF x
  <2>4. t.op = [slashed.op EXCEPT !.balance = x]
    BY <1>7, <1>8, <2>1, <2>3
  <2>5. /\ t.op.tokens = slashed.op.tokens /\ t.op.balance = x /\ SameStakes(slashed.op, t.op)
    BY <2>3, <2>4, NewBalance
  <2>6. ValueOf(t.op) = ValueOf(tx.op) - reward
    <3>1. ValueOf(t.op) = slashed.op.balance - reward
                            + slashed.op.totalStaked - slashed.op.totalSlashed
      BY <2>3, <2>5 DEF ValueOf, SameStakes
    <3>2. slashed.op.totalStaked \in Int /\ slashed.op.totalSlashed \in Int
      BY <2>3, ValueIsInt
    <3>3. ValueOf(slashed.op) = ValueOf(tx.op)
      BY <1>5, <2>2
    <3> QED
      BY <1>2, <2>3, <3>1, <3>2, <3>3 DEF ValueOf
  <2>7. Supply(t.op) = Supply(slashed.op)
    BY <2>5 DEF Supply
  <2> QED
    BY <1>5, <2>2, <2>5, <2>6, <2>7 DEF RateKept, WorthAtLeast
<1> QED
  BY <1>9, <1>10

\* One step after the other
LEMMA RateStaysKept ==
    ASSUME NEW a \in Holdings, NEW b \in Holdings, NEW c \in Holdings,
           ValueOf(a) >= 0, ValueOf(b) >= 0, ValueOf(c) >= 0,
           RateKept(a, b), RateKept(b, c), c.tokens[Owner] <= b.tokens[Owner]
    PROVE  RateKept(a, c)
<1>1. /\ ValueOf(a) \in Nat /\ ValueOf(b) \in Nat /\ ValueOf(c) \in Nat
      /\ Supply(a) \in Nat /\ Supply(b) \in Nat /\ Supply(c) \in Nat
  BY ValueIsInt, SupplyIsNat
<1>2. /\ b.tokens[Owner] \in Nat /\ c.tokens[Owner] \in Nat /\ b.tokens[Owner] <= Supply(b)
  BY SupplyIsNat, OperatorAssumption DEF Holdings
<1> SUFFICES ASSUME c.tokens[Owner] > 0 PROVE WorthAtLeast(ValueOf(a), a, c)
  BY DEF RateKept
<1>3. b.tokens[Owner] > 0 /\ Supply(b) \in Nat \ {0}
  BY <1>1, <1>2
<1>4. /\ ValueOf(a) * Supply(b) <= ValueOf(b) * Supply(a)
      /\ ValueOf(b) * Supply(c) <= ValueOf(c) * Supply(b)
  BY <1>3 DEF RateKept, WorthAtLeast
<1> QED
  BY <1>1, <1>3, <1>4, RatesChain DEF WorthAtLeast

-----------------------------------------------------------------------------
(* Every action keeps the rate. *)

LEMMA ValueBefore ==
    ASSUME StakesInv
    PROVE  op \in Holdings /\ StakesSound(op) /\ ValueOf(op) \in Nat /\ op.balance \in Nat
<1>1. op \in Holdings /\ StakesSound(op)
  BY DEF StakesInv
<1> QED
  BY <1>1, StakeIsPart, ValueIsInt

LEMMA SoundValueIsNat ==
    ASSUME NEW a \in Holdings, StakesSound(a)
    PROVE  ValueOf(a) >= 0
<1>1. ValueOf(a) \in Nat
  BY StakeIsPart
<1> QED
  BY <1>1

LEMMA PaidOutKeepsRate ==
    ASSUME StakesInv, NEW tx, Sound(tx), tx.ok => StakesSound(tx.op),
           tx.ok => RateKept(op, tx.op), NEW n \in Nat, Commit(PaidOutQueue(tx, n))
    PROVE  RateKept(op, op')
<1> DEFINE t == PaidOutQueue(tx, n)
<1>1. tx.ok => tx.op.totalSlashed <= tx.op.totalStaked
  BY StakeIsPart DEF Sound
<1>2. PaidFairlyFrom(tx, t)
  BY <1>1, PaidOutQueueFair
<1> HIDE DEF t
<1>3. t.ok /\ op' = t.op
  BY CommitIs DEF t
<1>4. /\ tx.ok /\ tx.op \in Holdings /\ t.op \in Holdings
      /\ SameStakes(tx.op, t.op) /\ PaysFairly(tx.op, t.op)
  BY <1>2, <1>3 DEF PaidFairlyFrom, PaidFrom, Sound
<1>5. StakesSound(tx.op) /\ StakesSound(t.op)
  BY <1>4, SameStakesAreSound
<1>6. ValueOf(op) >= 0 /\ ValueOf(tx.op) >= 0 /\ ValueOf(t.op) >= 0 /\ op \in Holdings
  BY <1>4, <1>5, ValueBefore, SoundValueIsNat
<1>7. RateKept(op, tx.op) /\ RateKept(tx.op, t.op) /\ t.op.tokens[Owner] <= tx.op.tokens[Owner]
  BY <1>4 DEF PaysFairly, RateKept
<1> QED
  BY <1>3, <1>4, <1>6, <1>7, RateStaysKept

LEMMA MaybePaidOutKeepsRate ==
    ASSUME StakesInv, NEW tx, Sound(tx), tx.ok => StakesSound(tx.op),
           tx.ok => RateKept(op, tx.op), NEW payOut, Commit(MaybePaidOut(tx, payOut))
    PROVE  RateKept(op, op')
<1>1. CASE payOut
  <2>1. Commit(PaidOutQueue(tx, 0))
    BY <1>1 DEF MaybePaidOut
  <2> QED
    BY <2>1, PaidOutKeepsRate
<1>2. CASE ~payOut
  <2>1. Commit(tx)
    BY <1>2 DEF MaybePaidOut
  <2>2. tx.ok /\ op' = tx.op
    BY <2>1, CommitIs
  <2> QED
    BY <2>2
<1> QED
  BY <1>1, <1>2

LEMMA DelegationKeepsRate ==
    ASSUME StakesInv, OthersHold(op), NEW h \in Holders, NEW data \in Nat
    PROVE  LET t == Delegated(With(data), h, data)
           IN  /\ Sound(t)
               /\ t.ok => StakesSound(t.op) /\ RateKept(op, t.op)
<1> DEFINE w == With(data)
           t == Delegated(w, h, data)
<1>1. op \in Holdings /\ StakesSound(op) /\ ValueOf(op) \in Nat /\ op.balance \in Nat
  BY ValueBefore
<1>2. Sound(w) /\ w.ok /\ SameStakes(op, w.op) /\ w.op.balance = op.balance + data
      /\ w.op.tokens = op.tokens
  BY <1>1, WithIs
<1> HIDE DEF w
<1>3. StakesSound(w.op) /\ w.op \in Holdings
  BY <1>1, <1>2, SameStakesAreSound DEF Sound
<1>4. ValueOf(w.op) = ValueOf(op) + data
  <2>1. op.totalStaked \in Int /\ op.totalSlashed \in Int
    BY <1>1, ValueIsInt
  <2> QED
    BY <1>1, <1>2, <2>1 DEF ValueOf, SameStakes
<1>5. Supply(w.op) = Supply(op) /\ Supply(w.op) > 0
  <2>1. Supply(op) \in Nat \ {0}
    BY <1>1, OthersHoldSupply
  <2> QED
    BY <1>2, <2>1 DEF Supply
<1>6. data <= ValueOf(w.op) /\ ValueOf(op) <= ValueOf(w.op) - data
  BY <1>1, <1>4
<1>7. IsTx(t) /\ (t.ok => t.op \in Holdings /\ SameStakes(w.op, t.op))
  BY <1>2, <1>6, DelegatedIs
<1>8. t.ok => \A v \in Int : v <= ValueOf(w.op) - data => WorthAtLeast(v, w.op, t.op)
  BY <1>2, <1>5, <1>6, DelegatedWorth
<1> HIDE DEF t
<1>9. t.ok => WorthAtLeast(ValueOf(op), w.op, t.op)
  BY <1>1, <1>6, <1>8
<1>10. t.ok => RateKept(op, t.op)
  BY <1>5, <1>9 DEF RateKept, WorthAtLeast
<1>11. Sound(t) /\ (t.ok => StakesSound(t.op))
  BY <1>3, <1>7, SameStakesAreSound DEF Sound
<1> QED
  BY <1>10, <1>11 DEF t, w

LEMMA DelegateKeepsRate ==
    ASSUME StakesInv, OthersHold(op), NEW h \in Holders, NEW data \in DataAmounts,
           Delegate(h, data)
    PROVE  RateKept(op, op')
<1> DEFINE d == Delegated(With(data), h, data)
<1>1. data \in Nat
  BY BoundsAssumption
<1>2. Sound(d) /\ (d.ok => StakesSound(d.op) /\ RateKept(op, d.op))
  BY <1>1, DelegationKeepsRate
<1>3. Commit(PaidOutQueue(d, 0))
  BY DEF Delegate
<1> HIDE DEF d
<1> QED
  BY <1>2, <1>3, PaidOutKeepsRate

LEMMA FishAnotherKeepsRate ==
    ASSUME StakesInv, OthersHold(op), NEW data \in EarningAmounts, FishAnother(data)
    PROVE  RateKept(op, op')
<1> DEFINE d == Delegated(With(data), Owner, data)
<1>1. data \in Nat /\ Owner \in Holders
  BY BoundsAssumption, OperatorAssumption
<1>2. Sound(d) /\ (d.ok => StakesSound(d.op) /\ RateKept(op, d.op))
  BY <1>1, DelegationKeepsRate
<1>3. Commit(d)
  BY DEF FishAnother
<1> HIDE DEF d
<1>4. d.ok /\ op' = d.op
  BY <1>3, CommitIs
<1> QED
  BY <1>2, <1>4

LEMMA UndelegateKeepsRate ==
    ASSUME StakesInv, NEW h \in Holders, NEW data \in Undelegations, Undelegate(h, data)
    PROVE  RateKept(op, op')
<1> DEFINE b == Begin(op)
           q == Queued(b, h, data)
<1>1. data \in Nat /\ op \in Holdings /\ StakesSound(op) /\ ValueOf(op) \in Nat
  BY BoundsAssumption, ValueBefore
<1>2. Sound(b) /\ b.op = op
  BY <1>1, BeginIs
<1>3. Commit(PaidOutQueue(q, 0))
  BY DEF Undelegate
<1> HIDE DEF b
<1>4. IsTx(q) /\ (q.ok => /\ q.op \in Holdings /\ SameStakes(b.op, q.op)
                          /\ q.op.balance = b.op.balance /\ q.op.tokens = b.op.tokens)
  BY <1>1, <1>2, QueuedIs
<1> HIDE DEF q
<1>5. Sound(q) /\ (q.ok => StakesSound(q.op))
  BY <1>1, <1>2, <1>4, SameStakesAreSound DEF Sound
<1>6. q.ok => ValueOf(q.op) = ValueOf(op)
  BY <1>2, <1>4 DEF ValueOf, SameStakes
<1>7. q.ok => RateKept(op, q.op)
  <2>1. ASSUME q.ok PROVE ValueOf(op) <= ValueOf(q.op)
    BY <1>1, <1>6, <2>1
  <2> QED
    BY <1>1, <1>2, <1>4, <2>1, MoreValueKeepsRate
<1> QED
  BY <1>3, <1>5, <1>7, PaidOutKeepsRate

LEMMA TransferKeepsRate ==
    ASSUME StakesInv, NEW from \in Holders, NEW to \in Holders, NEW tokens \in DataAmounts,
           Transfer(from, to, tokens)
    PROVE  RateKept(op, op')
<1> DEFINE b == Begin(op)
           t == Transferred(b, from, to, tokens)
<1>1. tokens \in Nat /\ op \in Holdings /\ ValueOf(op) \in Nat
  BY BoundsAssumption, ValueBefore
<1>2. Sound(b) /\ b.op = op
  BY <1>1, BeginIs
<1>3. Commit(t)
  BY DEF Transfer
<1> HIDE DEF b
<1>4. t.ok => /\ t.op \in Holdings /\ SameStakes(b.op, t.op)
              /\ t.op.balance = b.op.balance /\ Supply(t.op) = Supply(b.op)
  BY <1>1, <1>2, TransferredIs
<1> HIDE DEF t
<1>5. t.ok /\ op' = t.op
  BY <1>3, CommitIs
<1>6. ValueOf(t.op) = ValueOf(op) /\ Supply(t.op) = Supply(op)
  BY <1>2, <1>4, <1>5 DEF ValueOf, SameStakes
<1>7. ValueOf(op) * Supply(op) \in Nat
  BY <1>1, SupplyIsNat
<1> QED
  BY <1>5, <1>6, <1>7 DEF RateKept, WorthAtLeast

LEMMA PayOutQueueKeepsRate ==
    ASSUME StakesInv, NEW n \in Nat, PayOutQueue(n)
    PROVE  RateKept(op, op')
<1> DEFINE b == Begin(op)
<1>1. op \in Holdings /\ StakesSound(op) /\ ValueOf(op) \in Nat
  BY ValueBefore
<1>2. Sound(b) /\ b.op = op
  BY <1>1, BeginIs
<1>3. Commit(PaidOutQueue(b, n))
  BY DEF PayOutQueue
<1> HIDE DEF b
<1>4. RateKept(op, b.op) /\ StakesSound(b.op)
  BY <1>1, <1>2, MoreValueKeepsRate
<1> QED
  BY <1>2, <1>3, <1>4, PaidOutKeepsRate

LEMMA ReceiveUntoldKeepsRate ==
    ASSUME StakesInv, NEW data \in EarningAmounts, ReceiveUntold(data)
    PROVE  RateKept(op, op')
<1> DEFINE w == With(data)
<1>1. /\ data \in Nat /\ op \in Holdings /\ ValueOf(op) \in Nat /\ op.balance \in Nat
      /\ op.totalStaked \in Int /\ op.totalSlashed \in Int
  BY BoundsAssumption, ValueBefore, ValueIsInt
<1>2. /\ Sound(w) /\ SameStakes(op, w.op) /\ w.op.tokens = op.tokens
      /\ w.op.balance = op.balance + data
  BY <1>1, WithIs
<1>3. Commit(w)
  BY DEF ReceiveUntold
<1> HIDE DEF w
<1>4. w.ok /\ op' = w.op
  BY <1>3, CommitIs
<1>5. ValueOf(op) <= ValueOf(w.op)
  BY <1>1, <1>2 DEF ValueOf, SameStakes
<1>6. w.op \in Holdings
  BY <1>2, <1>4 DEF Sound
<1> QED
  BY <1>1, <1>2, <1>4, <1>5, <1>6, MoreValueKeepsRate

LEMMA StakedKeepsValue ==
    ASSUME NEW b, Sound(b), NEW s \in Sponsorships, NEW amount \in Nat \ {0},
           StakesSound(b.op)
    PROVE  LET t == Staked(b, s, amount)
           IN  t.ok => /\ t.op \in Holdings /\ t.op.tokens = b.op.tokens
                       /\ ValueOf(t.op) = ValueOf(b.op)
<1> DEFINE t == Staked(b, s, amount)
<1>1. t.ok => /\ b.ok /\ t.op \in Holdings /\ StakesSound(t.op)
              /\ t.op.sponsorships = b.op.sponsorships \cup {s}
              /\ t.op.stakedInto = [b.op.stakedInto EXCEPT ![s] = @ + amount]
              /\ t.op.slashedIn = b.op.slashedIn
              /\ t.op.tokens = b.op.tokens /\ ValueOf(t.op) = ValueOf(b.op)
  BY StakedIs
<1> HIDE DEF t
<1> QED
  BY <1>1 DEF t

LEMMA StakeIntoKeepsRate ==
    ASSUME StakesInv, NEW s \in Sponsorships, NEW amount \in DataAmounts, StakeInto(s, amount)
    PROVE  RateKept(op, op')
<1> DEFINE b == Begin(op)
           t == Staked(b, s, amount)
<1>1. amount \in Nat \ {0} /\ op \in Holdings /\ StakesSound(op) /\ ValueOf(op) \in Nat
  BY BoundsAssumption, ValueBefore
<1>2. Sound(b) /\ b.op = op
  BY <1>1, BeginIs
<1>3. Commit(t)
  BY DEF StakeInto
<1> HIDE DEF b
<1>4. t.ok => /\ t.op \in Holdings /\ t.op.tokens = b.op.tokens
              /\ ValueOf(t.op) = ValueOf(b.op)
  BY <1>1, <1>2, StakedKeepsValue
<1> HIDE DEF t
<1>5. t.ok /\ op' = t.op
  BY <1>3, CommitIs
<1> QED
  BY <1>1, <1>2, <1>4, <1>5, MoreValueKeepsRate

LEMMA ReduceStakeToKeepsRate ==
    ASSUME StakesInv, NEW s \in DOMAIN stakeAt, NEW target \in DataAmounts, NEW payOut,
           ReduceStakeTo(s, target, payOut)
    PROVE  RateKept(op, op')
<1>1. target \in Nat /\ op \in Holdings /\ StakesSound(op) /\ ValueOf(op) \in Nat
  BY BoundsAssumption, ValueBefore
<1>2. /\ s \in Sponsorships /\ stakeAt[s] \in Nat
      /\ stakeAt[s] = op.stakedInto[s] - op.slashedIn[s]
      /\ op.stakedInto[s] \in Int /\ op.slashedIn[s] \in Int
  BY JoinedIs
<1> DEFINE b == Begin(op)
           cashout == stakeAt[s] - target
           r == StakeReduced(b, s, cashout)
<1>3. Sound(b) /\ b.op = op
  BY <1>1, BeginIs
<1>4. Commit(MaybePaidOut(r, payOut)) /\ 0 < target /\ target < stakeAt[s]
  BY DEF ReduceStakeTo
<1>5. cashout \in Nat /\ cashout < op.stakedInto[s] - op.slashedIn[s]
  BY <1>1, <1>2, <1>4
<1> HIDE DEF b, cashout
<1>6. /\ IsTx(r)
      /\ r.ok => /\ r.op \in Holdings /\ StakesSound(r.op)
                 /\ r.op.stakedInto = [op.stakedInto EXCEPT ![s] = @ - cashout]
                 /\ r.op.tokens = op.tokens /\ ValueOf(r.op) = ValueOf(op)
  BY <1>1, <1>2, <1>3, <1>5, StakeReducedIs
<1> HIDE DEF r
<1>7. Sound(r) /\ (r.ok => StakesSound(r.op)) /\ (r.ok => RateKept(op, r.op))
  BY <1>1, <1>3, <1>6, MoreValueKeepsRate DEF Sound
<1> QED
  BY <1>4, <1>7, MaybePaidOutKeepsRate

\* The stake comes back, with its earnings.
LEMMA UnstakeKeepsRate ==
    ASSUME StakesInv, OthersHold(op), NEW s \in DOMAIN stakeAt, NEW earnings \in Nat,
           NEW payOut, Unstake(s, earnings, payOut)
    PROVE  RateKept(op, op')
<1>1. /\ op \in Holdings /\ StakesSound(op) /\ ValueOf(op) \in Nat /\ op.balance \in Nat
      /\ op.totalStaked \in Int /\ op.totalSlashed \in Int
  BY ValueBefore, ValueIsInt
<1>2. /\ s \in Sponsorships /\ stakeAt[s] \in Nat
      /\ stakeAt[s] = op.stakedInto[s] - op.slashedIn[s]
      /\ op.stakedInto[s] \in Int /\ op.slashedIn[s] \in Int
  BY JoinedIs
<1> DEFINE received == stakeAt[s] + earnings
           w == With(received)
           r == SponsorshipRemoved(w, s, received)
<1>3. received \in Nat /\ op.stakedInto[s] - op.slashedIn[s] <= received
  BY <1>2
<1>4. Commit(MaybePaidOut(r, payOut))
  BY DEF Unstake
<1> HIDE DEF received
<1>5. /\ Sound(w) /\ w.ok /\ SameStakes(op, w.op) /\ w.op.tokens = op.tokens
      /\ w.op.balance = op.balance + received
  BY <1>1, <1>3, WithIs
<1> HIDE DEF w
<1>6. /\ StakesSound(w.op) /\ received <= w.op.balance
      /\ w.op.stakedInto[s] = op.stakedInto[s] /\ w.op.slashedIn[s] = op.slashedIn[s]
  BY <1>1, <1>3, <1>5, SameStakesAreSound DEF SameStakes
<1>7. ValueOf(w.op) = ValueOf(op) + received
  BY <1>1, <1>3, <1>5 DEF ValueOf, SameStakes
<1>8. Supply(w.op) = Supply(op) /\ Supply(w.op) > 0 /\ Supply(op) \in Nat
  <2>1. Supply(op) \in Nat \ {0}
    BY <1>1, OthersHoldSupply
  <2> QED
    BY <1>5, <2>1 DEF Supply
<1>9. PaidByOwner(op, w.op, 0)
  <2>1. ValueOf(op) - 0 = ValueOf(op) /\ ValueOf(op) * Supply(op) \in Nat
    BY <1>1, <1>8
  <2> QED
    BY <1>5, <1>8, <2>1 DEF PaidByOwner, OthersKeepTokens
<1>10. /\ ValueOf(op) - 0 <= ValueOf(w.op) - (w.op.stakedInto[s] - w.op.slashedIn[s])
       /\ ValueOf(op) <= ValueOf(w.op) - received + w.op.slashedIn[s]
       /\ ValueOf(op) >= 0
  <2>1. 0 <= op.slashedIn[s]
    BY <1>1, <1>2 DEF StakesSound
  <2> QED
    BY <1>1, <1>2, <1>3, <1>6, <1>7, <2>1
<1>11. /\ IsTx(r)
       /\ r.ok => r.op \in Holdings /\ StakesSound(r.op)
  BY <1>2, <1>3, <1>5, <1>6, SponsorshipRemovedIs
<1>12. (r.ok /\ r.op \in Holdings /\ ValueOf(r.op) >= 0) => RateKept(op, r.op)
  BY <1>1, <1>2, <1>3, <1>5, <1>6, <1>8, <1>9, <1>10, LeavingKeepsRate
<1> HIDE DEF r
<1>13. r.ok => ValueOf(r.op) >= 0
  BY <1>11, SoundValueIsNat
<1>14. Sound(r) /\ (r.ok => StakesSound(r.op)) /\ (r.ok => RateKept(op, r.op))
  BY <1>11, <1>12, <1>13 DEF Sound
<1> QED
  BY <1>4, <1>14, MaybePaidOutKeepsRate

LEMMA ForceUnstakeKeepsRate ==
    ASSUME StakesInv, OthersHold(op), NEW s \in DOMAIN stakeAt,
           NEW losses \in LeaveSlashings(stakeAt[s]),
           NEW earnings \in Nat, NEW n \in Nat, ForceUnstake(s, losses, earnings, n)
    PROVE  RateKept(op, op')
<1>1. op \in Holdings /\ StakesSound(op) /\ ValueOf(op) \in Nat
  BY ValueBefore
<1>2. /\ s \in Sponsorships /\ stakeAt[s] \in Nat
      /\ stakeAt[s] = op.stakedInto[s] - op.slashedIn[s]
      /\ op.stakedInto[s] \in Int /\ op.slashedIn[s] \in Int
      /\ op.slashedIn \in [Sponsorships -> Int]
  BY JoinedIs
<1>3. /\ losses.locked \in Nat /\ losses.penalty \in Nat
      /\ losses.locked + losses.penalty <= stakeAt[s]
  BY BoundsAssumption DEF LeaveSlashings
<1> DEFINE lost == losses.locked + losses.penalty
           received == stakeAt[s] - lost + earnings
           u == [SlashedBy(Begin(op), s, losses) EXCEPT !.op.balance = @ + received]
           r == SponsorshipRemoved(u, s, received)
<1>4. /\ received \in Nat /\ lost \in Nat /\ lost = losses.locked + losses.penalty
      /\ received = stakeAt[s] - lost + earnings
  BY <1>2, <1>3
<1>5. Commit(PaidOutQueue(r, n))
  BY DEF ForceUnstake
<1> HIDE DEF received
<1>6. /\ Sound(u)
      /\ u.ok => /\ StakesSound(u.op) /\ received <= u.op.balance
                 /\ u.op.stakedInto = op.stakedInto
                 /\ u.op.slashedIn = [op.slashedIn EXCEPT
                                        ![s] = @ + losses.locked + losses.penalty]
  BY <1>4, ReturnedIs
<1>7. /\ u.ok /\ u.op \in Holdings
      /\ PaidByOwner(op, u.op, lost) /\ ValueOf(u.op) = ValueOf(op) - lost + received
  BY <1>4, ReturnedWorth
<1> HIDE DEF u, lost
<1>8. /\ u.op.stakedInto[s] = op.stakedInto[s]
      /\ u.op.slashedIn[s] = op.slashedIn[s] + lost
  BY <1>2, <1>3, <1>4, <1>6, <1>7
<1>9. Supply(u.op) > 0
  <2>1. Supply(u.op) \in Nat \ {0}
    BY <1>1, <1>7, OthersStillHold DEF PaidByOwner
  <2> QED
    BY <2>1
<1>10. /\ ValueOf(op) - lost <= ValueOf(u.op) - (u.op.stakedInto[s] - u.op.slashedIn[s])
       /\ ValueOf(op) <= ValueOf(u.op) - received + u.op.slashedIn[s]
       /\ ValueOf(op) >= 0
  <2>1. 0 <= op.slashedIn[s]
    BY <1>1, <1>2 DEF StakesSound
  <2> QED
    BY <1>1, <1>2, <1>4, <1>7, <1>8, <2>1
<1>11. /\ IsTx(r)
       /\ r.ok => r.op \in Holdings /\ StakesSound(r.op)
  BY <1>2, <1>4, <1>6, <1>7, SponsorshipRemovedIs
<1>12. (r.ok /\ r.op \in Holdings /\ ValueOf(r.op) >= 0) => RateKept(op, r.op)
  BY <1>1, <1>2, <1>4, <1>6, <1>7, <1>9, <1>10, LeavingKeepsRate
<1> HIDE DEF r
<1>13. r.ok => ValueOf(r.op) >= 0
  BY <1>11, SoundValueIsNat
<1>14. Sound(r) /\ (r.ok => StakesSound(r.op)) /\ (r.ok => RateKept(op, r.op))
  BY <1>11, <1>12, <1>13 DEF Sound
<1> QED
  BY <1>5, <1>14, PaidOutKeepsRate

LEMMA WithdrawEarningsKeepsRate ==
    ASSUME StakesInv, OthersHold(op), NEW earnings \in EarningAmounts, NEW outsider, NEW payOut,
           WithdrawEarnings(earnings, outsider, payOut)
    PROVE  RateKept(op, op')
<1>1. /\ earnings \in Nat /\ op \in Holdings /\ StakesSound(op)
      /\ ValueOf(op) \in Nat /\ op.balance \in Nat
      /\ op.totalStaked \in Int /\ op.totalSlashed \in Int
  BY BoundsAssumption, ValueBefore, ValueIsInt
<1> DEFINE w == With(earnings)
           e == EarningsSplit(w, earnings)
           before == ValueOf(op)
           f == FishermanReward(e, before, earnings)
           r == IF outsider THEN f ELSE e
<1>2. Commit(MaybePaidOut(r, payOut))
  BY DEF WithdrawEarnings
<1>3. /\ Sound(w) /\ w.ok /\ SameStakes(op, w.op) /\ w.op.tokens = op.tokens
      /\ w.op.balance = op.balance + earnings
  BY <1>1, WithIs
<1> HIDE DEF w, before
<1>4. StakesSound(w.op) /\ w.op \in Holdings
  BY <1>1, <1>3, SameStakesAreSound DEF Sound
<1>5. earnings <= w.op.balance /\ w.op.totalSlashed <= w.op.totalStaked
  BY <1>1, <1>3, <1>4, StakeIsPart
<1>6. ValueOf(w.op) = ValueOf(op) + earnings
  BY <1>1, <1>3 DEF ValueOf, SameStakes
<1>7. Supply(w.op) = Supply(op) /\ Supply(w.op) > 0
  <2>1. Supply(op) \in Nat \ {0}
    BY <1>1, OthersHoldSupply
  <2> QED
    BY <1>3, <2>1 DEF Supply
<1>8. IsTx(e) /\ (e.ok => e.op \in Holdings /\ SameStakes(w.op, e.op))
  BY <1>1, <1>3, <1>5, EarningsSplitIs
<1>9. e.ok => \A v \in Int : v <= ValueOf(w.op) - earnings => WorthAtLeast(v, w.op, e.op)
  BY <1>1, <1>3, <1>5, <1>7, EarningsSplitWorth
<1> HIDE DEF e
<1>10. e.ok => RateKept(op, e.op)
  <2>1. ValueOf(op) \in Int /\ ValueOf(op) <= ValueOf(w.op) - earnings
    BY <1>1, <1>6
  <2>2. e.ok => WorthAtLeast(ValueOf(op), w.op, e.op)
    BY <1>9, <2>1
  <2> QED
    BY <1>7, <2>2 DEF RateKept, WorthAtLeast
<1>11. Sound(e) /\ (e.ok => StakesSound(e.op))
  BY <1>4, <1>8, SameStakesAreSound DEF Sound
<1>12. e.ok => ValueOf(e.op) >= 0
  BY <1>8, <1>11, SoundValueIsNat
<1>13. IsTx(f) /\ (f.ok => e.ok /\ f.op \in Holdings /\ SameStakes(e.op, f.op))
  BY <1>1, <1>11, <1>12, FishermanRewardIs
<1>14. e.ok => ((f.ok /\ f.op \in Holdings) =>
                  f.op.tokens[Owner] <= e.op.tokens[Owner] /\ RateKept(e.op, f.op))
  BY <1>1, <1>11, <1>12, FishermanRewardWorth
<1> HIDE DEF f
<1>15. f.ok => StakesSound(f.op) /\ ValueOf(f.op) >= 0
  BY <1>11, <1>13, SameStakesAreSound, SoundValueIsNat
<1>16. f.ok => RateKept(op, f.op)
  <2> SUFFICES ASSUME f.ok PROVE RateKept(op, f.op)
    OBVIOUS
  <2>1. e.ok /\ f.op \in Holdings /\ e.op \in Holdings
    BY <1>8, <1>13
  <2>2. RateKept(op, e.op) /\ RateKept(e.op, f.op) /\ f.op.tokens[Owner] <= e.op.tokens[Owner]
    BY <1>10, <1>14, <2>1
  <2>3. ValueOf(op) >= 0 /\ ValueOf(e.op) >= 0 /\ ValueOf(f.op) >= 0
    BY <1>1, <1>12, <1>15, <2>1
  <2> QED
    BY <1>1, <2>1, <2>2, <2>3, RateStaysKept
<1>17. IsTx(r) /\ (r.ok => r.op \in Holdings /\ StakesSound(r.op) /\ RateKept(op, r.op))
  <2>1. CASE outsider
    <3>1. r = f
      BY <2>1
    <3> HIDE DEF r
    <3> QED
      BY <1>13, <1>15, <1>16, <3>1
  <2>2. CASE ~outsider
    <3>1. r = e
      BY <2>2
    <3> HIDE DEF r
    <3> QED
      BY <1>8, <1>10, <1>11, <3>1
  <2> QED
    BY <2>1, <2>2
<1> HIDE DEF r
<1>18. Sound(r) /\ (r.ok => StakesSound(r.op)) /\ (r.ok => RateKept(op, r.op))
  BY <1>17 DEF Sound
<1> QED
  BY <1>2, <1>18, MaybePaidOutKeepsRate

LEMMA UpdateCutKeepsRate ==
    ASSUME StakesInv, NEW cut \in Cuts, UpdateCut(cut)
    PROVE  RateKept(op, op')
<1>1. op \in Holdings /\ cut \in 0 .. Ether /\ ValueOf(op) \in Int
  BY BoundsAssumption, ValueBefore
<1>2. op' = [op EXCEPT !.cut = cut]
  BY DEF UpdateCut
<1>3. op' \in Holdings /\ SameStakes(op, op')
  BY <1>1, <1>2, NewCut
<1>4. op'.tokens = op.tokens /\ op'.balance = op.balance
  BY <1>1, <1>2 DEF Holdings
<1>5. ValueOf(op') = ValueOf(op)
  BY <1>3, <1>4 DEF ValueOf, SameStakes
<1> QED
  BY <1>1, <1>3, <1>4, <1>5, MoreValueKeepsRate

LEMMA SlashedInSponsorshipKeepsRate ==
    ASSUME StakesInv, NEW s \in DOMAIN stakeAt, NEW amount \in SlashAmounts,
           SlashedInSponsorship(s, amount)
    PROVE  RateKept(op, op')
<1>1. amount \in Nat \ {0} /\ op \in Holdings /\ StakesSound(op)
  BY BoundsAssumption, ValueBefore
<1>2. /\ s \in Sponsorships /\ s \in op.sponsorships
      /\ stakeAt[s] = op.stakedInto[s] - op.slashedIn[s]
  BY JoinedIs
<1> DEFINE b == Begin(op)
           t == OnSlash(b, s, amount)
<1>3. Sound(b) /\ b.ok /\ b.op = op
  BY <1>1, BeginIs
<1>4. Commit(t) /\ amount <= stakeAt[s]
  BY DEF SlashedInSponsorship
<1> HIDE DEF b
<1>5. SlashesFairly(b.op, t.op, amount)
  BY <1>1, <1>2, <1>3, <1>4, OnSlashWorth
<1> HIDE DEF t
<1>6. t.ok /\ op' = t.op
  BY <1>4, CommitIs
<1> QED
  BY <1>3, <1>5, <1>6 DEF SlashesFairly, RateKept

LEMMA KickedOutKeepsRate ==
    ASSUME StakesInv, OthersHold(op), NEW s \in DOMAIN stakeAt, NEW amount \in Nat,
           NEW losses \in LeaveSlashings(stakeAt[s]), NEW earnings \in Nat,
           KickedOut(s, amount, losses, earnings)
    PROVE  RateKept(op, op')
<1>1. op \in Holdings /\ StakesSound(op) /\ ValueOf(op) \in Nat /\ op.balance \in Nat
  BY ValueBefore
<1>2. /\ s \in Sponsorships /\ s \in op.sponsorships /\ stakeAt[s] \in Nat
      /\ stakeAt[s] = op.stakedInto[s] - op.slashedIn[s]
      /\ op.stakedInto[s] \in Int /\ op.slashedIn[s] \in Int
      /\ op.slashedIn \in [Sponsorships -> Int]
  BY JoinedIs
<1>3. losses.locked \in Nat /\ losses.penalty \in Nat
  BY BoundsAssumption DEF LeaveSlashings
<1> DEFINE lost == losses.locked + losses.penalty
           received == stakeAt[s] - amount - lost + earnings
           u == [SlashedBy(Begin(op), s, losses) EXCEPT !.op.balance = @ + received]
           t == OnKick(u, s, amount, received)
<1>4. Commit(t) /\ stakeAt[s] - amount >= lost
  BY DEF KickedOut
<1>5. /\ received \in Nat /\ lost \in Nat /\ lost = losses.locked + losses.penalty
      /\ received = stakeAt[s] - amount - lost + earnings
  BY <1>2, <1>3, <1>4
<1> HIDE DEF received
<1>6. /\ Sound(u)
      /\ u.ok => /\ StakesSound(u.op) /\ received <= u.op.balance
                 /\ u.op.sponsorships = op.sponsorships
                 /\ u.op.stakedInto = op.stakedInto
                 /\ u.op.slashedIn = [op.slashedIn EXCEPT
                                        ![s] = @ + losses.locked + losses.penalty]
  BY <1>5, ReturnedIs
<1>7. /\ u.ok /\ u.op \in Holdings
      /\ PaidByOwner(op, u.op, lost) /\ ValueOf(u.op) = ValueOf(op) - lost + received
  BY <1>5, ReturnedWorth
<1> HIDE DEF u, lost
<1>8. /\ u.op.stakedInto[s] = op.stakedInto[s]
      /\ u.op.slashedIn[s] = op.slashedIn[s] + lost
  BY <1>2, <1>3, <1>5, <1>6, <1>7
<1>9. /\ amount <= u.op.stakedInto[s] - u.op.slashedIn[s]
      /\ u.op.stakedInto[s] - u.op.slashedIn[s] <= received + amount
  BY <1>2, <1>4, <1>5, <1>8
<1>10. lost + amount <= ValueOf(op)
  <2>1. ValueOf(op) >= op.balance + op.stakedInto[s] - op.slashedIn[s]
    BY <1>1, <1>2, StakeIsPart
  <2> QED
    BY <1>1, <1>2, <1>4, <1>5, <2>1
<1>11. lost <= u.op.slashedIn[s]
  <2>1. 0 <= op.slashedIn[s]
    BY <1>1, <1>2 DEF StakesSound
  <2> QED
    BY <1>2, <1>5, <1>8, <2>1
<1>12. StakesSound(u.op) /\ s \in u.op.sponsorships /\ received <= u.op.balance
       /\ ValueOf(op) >= 0
  BY <1>1, <1>2, <1>6, <1>7
<1>13. RateKept(op, t.op)
  BY <1>1, <1>2, <1>5, <1>6, <1>7, <1>9, <1>10, <1>11, <1>12, OnKickWorth
<1> HIDE DEF t
<1>14. t.ok /\ op' = t.op
  BY <1>4, CommitIs
<1> QED
  BY <1>13, <1>14

LEMMA NextKeepsRate ==
    ASSUME StakesInv, [Next]_vars, OthersHold(op)
    PROVE  RateKept(op, op')
<1>1. EarningsOrNone \subseteq Nat /\ SlashAmounts \cup {0} \subseteq Nat /\ {0, 1} \subseteq Nat
  BY BoundsAssumption DEF EarningsOrNone
<1>2. ASSUME NEW h \in Holders, NEW data \in DataAmounts, Delegate(h, data)
      PROVE  RateKept(op, op')
  BY <1>2, DelegateKeepsRate
<1>3. ASSUME NEW h \in Holders, NEW data \in Undelegations, Undelegate(h, data)
      PROVE  RateKept(op, op')
  BY <1>3, UndelegateKeepsRate
<1>4. ASSUME NEW from \in Holders, NEW to \in Holders, NEW tokens \in DataAmounts,
             Transfer(from, to, tokens)
      PROVE  RateKept(op, op')
  BY <1>4, TransferKeepsRate
<1>5. ASSUME NEW n \in {0, 1}, PayOutQueue(n) PROVE RateKept(op, op')
  BY <1>1, <1>5, PayOutQueueKeepsRate
<1>6. ASSUME NEW data \in EarningAmounts, ReceiveUntold(data) PROVE RateKept(op, op')
  BY <1>6, ReceiveUntoldKeepsRate
<1>7. ASSUME NEW data \in EarningAmounts, FishAnother(data) PROVE RateKept(op, op')
  BY <1>7, FishAnotherKeepsRate
<1>8. ASSUME NEW s \in Sponsorships, NEW amount \in DataAmounts, StakeInto(s, amount)
      PROVE  RateKept(op, op')
  BY <1>8, StakeIntoKeepsRate
<1>9. ASSUME NEW s \in DOMAIN stakeAt, NEW target \in DataAmounts, NEW payOut \in BOOLEAN,
             ReduceStakeTo(s, target, payOut)
      PROVE  RateKept(op, op')
  BY <1>9, ReduceStakeToKeepsRate
<1>10. ASSUME NEW s \in DOMAIN stakeAt, NEW earnings \in EarningsOrNone, NEW payOut \in BOOLEAN,
              Unstake(s, earnings, payOut)
       PROVE  RateKept(op, op')
  BY <1>1, <1>10, UnstakeKeepsRate
<1>11. ASSUME NEW s \in DOMAIN stakeAt, NEW losses \in LeaveSlashings(stakeAt[s]),
              NEW earnings \in EarningsOrNone, NEW n \in {0, 1},
              ForceUnstake(s, losses, earnings, n)
       PROVE  RateKept(op, op')
  BY <1>1, <1>11, ForceUnstakeKeepsRate
<1>12. ASSUME NEW earnings \in EarningAmounts, NEW outsider \in BOOLEAN, NEW payOut \in BOOLEAN,
              WithdrawEarnings(earnings, outsider, payOut)
       PROVE  RateKept(op, op')
  BY <1>12, WithdrawEarningsKeepsRate
<1>13. ASSUME NEW cut \in Cuts, UpdateCut(cut) PROVE RateKept(op, op')
  BY <1>13, UpdateCutKeepsRate
<1>14. ASSUME NEW s \in DOMAIN stakeAt, NEW amount \in SlashAmounts,
              SlashedInSponsorship(s, amount)
       PROVE  RateKept(op, op')
  BY <1>14, SlashedInSponsorshipKeepsRate
<1>15. ASSUME NEW s \in DOMAIN stakeAt, NEW amount \in SlashAmounts \cup {0},
              NEW losses \in LeaveSlashings(stakeAt[s]), NEW earnings \in EarningsOrNone,
              KickedOut(s, amount, losses, earnings)
       PROVE  RateKept(op, op')
  BY <1>1, <1>15, KickedOutKeepsRate
<1>16. ASSUME op' = op PROVE RateKept(op, op')
  <2>1. op \in Holdings /\ ValueOf(op) \in Int
    BY ValueBefore
  <2>2. op' \in Holdings /\ op'.tokens = op.tokens /\ ValueOf(op) <= ValueOf(op')
    BY <1>16, <2>1
  <2> QED
    BY <2>1, <2>2, MoreValueKeepsRate
<1>17. ASSUME NextDay PROVE RateKept(op, op')
  BY <1>16, <1>17 DEF NextDay
<1>18. ASSUME UNCHANGED vars PROVE RateKept(op, op')
  BY <1>16, <1>18 DEF vars
<1> QED
  BY <1>2, <1>3, <1>4, <1>5, <1>6, <1>7, <1>8, <1>9, <1>10, <1>11, <1>12, <1>13, <1>14,
     <1>15, <1>17, <1>18 DEF Next

\* Whatever happens, as long as others than the owner hold operator tokens and the
\* owner has some left after it, the DATA per token has not become less: a slashing, a
\* kick and a fisherman's reward are paid for by the self-delegation alone, and neither
\* minting nor paying out of the queue dilutes anybody.
THEOREM RateIsAlwaysKept == Spec => RateIsKept
<1>1. Init => StakesInv
  BY InitStakesInv
<1>2. StakesInv /\ [Next]_vars => StakesInv'
  BY NextStakesInv
<1>3. ASSUME StakesInv, [Next]_vars
      PROVE  [(op'.tokens[Owner] > 0 /\ \E h \in Holders \ {Owner} : op.tokens[h] > 0)
                => ValueOf(op') * Supply(op) >= ValueOf(op) * Supply(op')]_vars
  <2> SUFFICES ASSUME op'.tokens[Owner] > 0, OthersHold(op)
               PROVE  ValueOf(op') * Supply(op) >= ValueOf(op) * Supply(op')
    BY DEF OthersHold
  <2>1. ValueOf(op) * Supply(op') <= ValueOf(op') * Supply(op)
    BY <1>3, NextKeepsRate DEF RateKept, WorthAtLeast
  <2>2. ValueOf(op) \in Int /\ Supply(op) \in Nat /\ ValueOf(op') \in Int /\ Supply(op') \in Nat
    <3>1. StakesInv'
      BY <1>2, <1>3
    <3>2. op \in Holdings /\ op' \in Holdings
      BY <1>3, <3>1 DEF StakesInv
    <3> QED
      BY <3>2, ValueIsInt, SupplyIsNat
  <2>3. ValueOf(op) * Supply(op') \in Int /\ ValueOf(op') * Supply(op) \in Int
    BY <2>2
  <2> QED
    BY <2>1, <2>3
<1> QED
  BY <1>1, <1>2, <1>3, PTL DEF Spec, RateIsKept

=============================================================================
