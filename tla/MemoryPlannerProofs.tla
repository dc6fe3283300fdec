------------------------- MODULE MemoryPlannerProofs -------------------------
(***************************************************************************)
(* Proofs about Graph and MemoryPlanner, for graphs of any size and any    *)
(* input lists, any value sizes, pools and alignment: the topological      *)
(* sort, the reuse of buffers, and the bytes a run reads.                  *)
(***************************************************************************)
EXTENDS MemoryPlanner, SetFacts, SequenceTheorems

-----------------------------------------------------------------------------
(* The inductive invariant of the sort. *)

\* The stages in which the edges are counted, and those after the sort.
Counted == {"filling", "sorting", "sorted", "cyclic"} \cup LaterStages
Sorted  == {"sorted"} \cup LaterStages

\* The nodes output and those waiting in the queue.
Outputs == Range(order)
Queued  == Range(queue)

\* The producers whose edges to n have been counted down: all those output,
\* but for the one whose edges are being counted down just now.
Relaxed(n) == IF n <= scan THEN Outputs ELSE Outputs \ {cur}

\* The places in its input list for which n still waits.
Waiting(n) == {i \in DOMAIN inputs[n] : inputs[n][i] \notin Relaxed(n)}

\* While the queue is filled.
FillingInd ==
    /\ order = <<>>
    /\ IsInjective(queue)
    /\ \A n \in Nodes : /\ in_degree[n] = Len(inputs[n])
                        /\ n \in Queued <=> n <= scan /\ in_degree[n] = 0

\* While nodes are output: in_degree counts the inputs a node waits for, and
\* the nodes that wait for none are those queued and those output, each once.
SortingInd ==
    /\ IsInjective(queue)
    /\ Queued \cap Outputs = {}
    /\ scan < N => cur \in Outputs
    /\ \A n \in Nodes : /\ in_degree[n] = Cardinality(Waiting(n))
                        /\ n \in Queued \cup Outputs <=> in_degree[n] = 0

\* The sort between any two steps.
SortInd ==
    /\ SortInv
    /\ stage \in {"built", "invalid"} => order = <<>> /\ queue = <<>> /\ scan = 0
    /\ stage \in Counted => validate
    /\ stage = "filling" => FillingInd
    /\ stage = "sorting" => SortingInd
    /\ stage \in Sorted => Outputs = Nodes /\ Len(order) = N

-----------------------------------------------------------------------------
(* The inductive invariant of the planner. *)

\* Before a plan is made there are no buffers.
NoPlan == /\ unplaced = {} /\ buffers = <<>> /\ live = {}
          /\ buffer_id = [v \in Nodes |-> 0]

\* Before the arenas are allocated nothing runs.
NoRun == executed = 0 /\ ~running

\* A buffer's last_use is no earlier than that of any value in it.
UseCovered == \A v \in Nodes : buffer_id[v] # 0 => last_node(v) <= buffers[buffer_id[v]].last_use

\* Values are placed in the order in which they are produced, and a buffer in
\* a free set is past its last use for every value still to be placed.
PlacedInOrder ==
    \A u \in unplaced :
        /\ buffer_id[u] = 0
        /\ \A v \in Nodes : buffer_id[v] # 0 => first_node(v) < first_node(u)
        /\ \A b \in DOMAIN buffers \ live : buffers[b].last_use < first_node(u)

\* What has been laid out in an arena ends below its end.
LaidOut ==
    /\ offset \in Seq(Nat) /\ Len(offset) <= Len(buffers)
    /\ arena_end \in [Pools -> Int]
    /\ \A b \in DOMAIN offset : offset[b] + buffers[b].bytes <= arena_end[buffers[b].pool]

\* Each arena is one block of arena_bytes bytes.
Arenas == bytes_of = [p \in Pools |-> [c \in 0..(arena_bytes(p) - 1) |-> bytes_of[p][c]]]

\* The plan between any two steps.
PlannerInd ==
    /\ SortInd
    /\ PlanInv
    /\ buffers \in Seq([bytes : Nat, pool : Pools, last_use : Nodes])
    /\ UseCovered
    /\ LaidOut
    /\ running \in BOOLEAN
    /\ running => stage = "allocated" /\ executed < N
    /\ stage \notin LaterStages => NoPlan /\ offset = <<>>
    /\ stage \notin {"allocated", "failed"} => NoRun
    /\ stage = "planning" => PlacedInOrder /\ offset = <<>>
    /\ stage = "allocated" => Len(offset) = Len(buffers) /\ Arenas
    /\ LiveValuesIntact

-----------------------------------------------------------------------------
(* Least and greatest elements. *)

-----------------------------------------------------------------------------
(* Lists of nodes. *)

\* push of a node that is not in the list.
LEMMA Pushed ==
  ASSUME NEW s \in Seq(Nodes), NEW n \in Nodes
  PROVE  /\ Append(s, n) \in Seq(Nodes) /\ Len(Append(s, n)) = Len(s) + 1
         /\ \A i \in DOMAIN s : Append(s, n)[i] = s[i]
         /\ Append(s, n)[Len(s) + 1] = n
         /\ Range(Append(s, n)) = Range(s) \cup {n}
         /\ IsInjective(s) /\ n \notin Range(s) => IsInjective(Append(s, n))
<1> DEFINE t == Append(s, n)
<1>1. /\ Len(s) \in Nat /\ DOMAIN s = 1..Len(s)
      /\ t \in Seq(Nodes) /\ Len(t) = Len(s) + 1 /\ DOMAIN t = 1..(Len(s) + 1)
      /\ \A i \in 1..Len(s) : t[i] = s[i]
      /\ t[Len(s) + 1] = n
  OBVIOUS
<1> HIDE DEF t
<1>2. Range(t) = Range(s) \cup {n}
  <2>1. \A x : x \in Range(t) => x \in Range(s) \cup {n}
    BY <1>1 DEF Range
  <2>2. \A x \in Range(s) : x \in Range(t)
    BY <1>1 DEF Range
  <2>3. n \in Range(t)
    BY <1>1 DEF Range
  <2> QED BY <2>1, <2>2, <2>3
<1>3. ASSUME IsInjective(s), n \notin Range(s) PROVE IsInjective(t)
  BY <1>1, <1>3 DEF IsInjective, Range
<1> QED BY <1>1, <1>2, <1>3 DEF t

\* front and pop of a list without repetitions.
LEMMA Popped ==
  ASSUME NEW s \in Seq(Nodes), s # <<>>, IsInjective(s)
  PROVE  /\ Head(s) \in Nodes /\ Head(s) \in Range(s)
         /\ Tail(s) \in Seq(Nodes) /\ IsInjective(Tail(s))
         /\ Range(Tail(s)) = Range(s) \ {Head(s)}
<1> DEFINE t == Tail(s)
<1>1. /\ Len(s) \in Nat \ {0} /\ DOMAIN s = 1..Len(s)
      /\ t \in Seq(Nodes) /\ DOMAIN t = 1..(Len(s) - 1)
      /\ \A i \in 1..(Len(s) - 1) : t[i] = s[i + 1]
      /\ Head(s) = s[1] /\ Head(s) \in Nodes
  OBVIOUS
<1> HIDE DEF t
<1>2. Head(s) \in Range(s)
  BY <1>1 DEF Range
<1>3. IsInjective(t)
  <2>1. SUFFICES ASSUME NEW i \in 1..(Len(s) - 1), NEW j \in 1..(Len(s) - 1), t[i] = t[j]
                 PROVE  i = j
    BY <1>1 DEF IsInjective
  <2>2. s[i + 1] = s[j + 1] /\ i + 1 \in DOMAIN s /\ j + 1 \in DOMAIN s
    BY <2>1, <1>1
  <2>3. i + 1 = j + 1
    BY <2>2 DEF IsInjective
  <2> QED BY <2>3, <1>1
<1>4. ASSUME NEW i \in DOMAIN t PROVE t[i] \in Range(s) \ {Head(s)}
  BY <1>1 DEF Range, IsInjective
<1>5. ASSUME NEW i \in DOMAIN s, s[i] # Head(s) PROVE s[i] \in Range(t)
  <2>1. i - 1 \in DOMAIN t /\ t[i - 1] = s[i]
    BY <1>1, <1>5
  <2> QED BY <2>1 DEF Range
<1>6. Range(t) = Range(s) \ {Head(s)}
  BY <1>4, <1>5 DEF Range
<1> QED BY <1>1, <1>2, <1>3, <1>6 DEF t

\* A list without repetitions that is as long as the graph holds every node,
\* and no other list does.
LEMMA FullList ==
  ASSUME NEW s \in Seq(Nodes), IsInjective(s)
  PROVE  Len(s) = N <=> Range(s) = Nodes
<1> DEFINE n == Len(s)
<1>1. n \in Nat /\ DOMAIN s = 1..n /\ s \in [1..n -> Nodes]
  OBVIOUS
<1> HIDE DEF n
<1>2. IsFiniteSet(Nodes) /\ Cardinality(Nodes) = N
  <2>1. N \in Int /\ 1 \in Int /\ N \in Nat
    BY GraphAssumption
  <2>2. IsFiniteSet(1..N) /\ Cardinality(1..N) = IF 1 > N THEN 0 ELSE N - 1 + 1
    BY <2>1, FS_Interval
  <2> QED BY <2>1, <2>2 DEF Nodes
<1>3. Cardinality(1..n) = n
  <2>1. n \in Int /\ 1 \in Int
    BY <1>1
  <2>2. Cardinality(1..n) = IF 1 > n THEN 0 ELSE n - 1 + 1
    BY <2>1, FS_Interval
  <2> QED BY <2>2, <1>1
<1>4. s \in Injection(1..n, Nodes)
  BY <1>1 DEF Injection
<1>5. n = N <=> s \in Surjection(1..n, Nodes)
  BY <1>2, <1>3, <1>4, FS_Injection
<1>6. s \in Surjection(1..n, Nodes) <=> Range(s) = Nodes
  BY <1>1 DEF Surjection, Range
<1> QED BY <1>5, <1>6 DEF n
-----------------------------------------------------------------------------
(* The sort. *)

\* What the output order says of the graph: when it holds a set of nodes
\* closed under "some input is in it", it does not run producers first.
LEMMA SortedIsAcyclic ==
  ASSUME GraphTypeOK, ProducersFirst, Outputs = Nodes
  PROVE  ~Cyclic
<1> SUFFICES ASSUME NEW S \in (SUBSET Nodes) \ {{}},
                    \A n \in S : \E k \in DOMAIN inputs[n] : inputs[n][k] \in S
             PROVE  FALSE
  BY DEF Cyclic
<1>1. /\ order \in Seq(Nodes) /\ DOMAIN order = 1..Len(order) /\ Len(order) \in Nat
      /\ \A i \in DOMAIN order : \A k \in DOMAIN inputs[order[i]] :
           \E j \in 1..(i - 1) : order[j] = inputs[order[i]][k]
  BY DEF GraphTypeOK, ProducersFirst, OutputBefore
<1> DEFINE T == {i \in DOMAIN order : order[i] \in S}
<1>2. T \in SUBSET Nat
  BY <1>1
<1>3. T # {}
  <2>1. PICK n \in S : n \in Nodes
    OBVIOUS
  <2>2. PICK i \in DOMAIN order : order[i] = n
    BY <2>1 DEF Outputs, Range
  <2> QED BY <2>1, <2>2
<1> HIDE DEF T
<1>4. Min(T) \in T /\ \A x \in T : Min(T) <= x
  BY <1>2, <1>3, LeastElement
<1>5. PICK i \in T : \A x \in T : i <= x
  BY <1>4
<1>6. i \in 1..Len(order) /\ order[i] \in S
  BY <1>1 DEF T
<1>7. PICK k \in DOMAIN inputs[order[i]] : inputs[order[i]][k] \in S
  BY <1>6
<1>8. PICK j \in 1..(i - 1) : order[j] = inputs[order[i]][k]
  BY <1>1, <1>6
<1>9. j \in T
  BY <1>1, <1>6, <1>7, <1>8 DEF T
<1>10. i <= j
  BY <1>5, <1>9
<1> QED BY <1>6, <1>8, <1>10

\* The sets of places in input lists are finite, and input lists are lists.
LEMMA InputPlaces ==
  ASSUME GraphTypeOK, NEW n \in Nodes
  PROVE  /\ DOMAIN inputs[n] = 1..Len(inputs[n]) /\ Len(inputs[n]) \in Nat
         /\ IsFiniteSet(DOMAIN inputs[n]) /\ Cardinality(DOMAIN inputs[n]) = Len(inputs[n])
         /\ \A S \in SUBSET DOMAIN inputs[n] : /\ IsFiniteSet(S) /\ Cardinality(S) \in Nat
                                               /\ Cardinality(S) = 0 <=> S = {}
<1> DEFINE m == Len(inputs[n])
<1>1. m \in Nat /\ DOMAIN inputs[n] = 1..m
  BY DEF GraphTypeOK
<1> HIDE DEF m
<1>2. IsFiniteSet(1..m) /\ Cardinality(1..m) = m
  <2>1. m \in Int /\ 1 \in Int
    BY <1>1
  <2>2. IsFiniteSet(1..m) /\ Cardinality(1..m) = IF 1 > m THEN 0 ELSE m - 1 + 1
    BY <2>1, FS_Interval
  <2> QED BY <2>2, <1>1
<1>3. ASSUME NEW S \in SUBSET (1..m)
      PROVE  IsFiniteSet(S) /\ Cardinality(S) \in Nat /\ (Cardinality(S) = 0 <=> S = {})
  <2>1. IsFiniteSet(S)
    BY <1>2, FS_Subset
  <2> QED BY <2>1, FS_CardinalityType, FS_EmptySet
<1> QED BY <1>1, <1>2, <1>3 DEF m

\* Before the sort there is nothing output.
LEMMA SortBegun ==
  ASSUME SortInd
  PROVE  /\ sort_invalid => SortInd'
         /\ sort_begin => SortInd'
<1>1. GraphTypeOK
  BY DEF SortInd, SortInv
<1>2. ASSUME sort_invalid PROVE SortInd'
  <2>1. stage = "built" /\ stage' = "invalid" /\ UNCHANGED <<inputs, in_degree, queue, cur, scan, order>>
    BY <1>2 DEF sort_invalid
  <2>2. GraphTypeOK' /\ ProducersFirst'
    BY <2>1 DEF SortInd, SortInv, GraphTypeOK, ProducersFirst, OutputBefore
  <2> QED BY <2>1, <2>2 DEF SortInd, SortInv, CyclesReported, Counted, Sorted, LaterStages
<1>3. ASSUME sort_begin PROVE SortInd'
  <2>1. /\ stage = "built" /\ validate /\ stage' = "filling"
        /\ in_degree' = [n \in Nodes |-> Len(inputs[n])]
        /\ UNCHANGED <<inputs, queue, cur, scan, order>>
        /\ order = <<>> /\ queue = <<>> /\ scan = 0
    BY <1>3 DEF sort_begin, SortInd
  <2>2. \A n \in Nodes : Len(inputs[n]) \in Nat
    BY <1>1, InputPlaces
  <2>3. GraphTypeOK'
    BY <2>1, <2>2, <1>1 DEF GraphTypeOK
  <2>4. ProducersFirst'
    BY <2>1 DEF ProducersFirst
  <2>5. FillingInd'
    <3>1. Queued' = {} /\ IsInjective(queue')
      BY <2>1 DEF Queued, Range, IsInjective
    <3>2. \A n \in Nodes : in_degree'[n] = Len(inputs[n]) /\ ~(n <= scan)
      BY <2>1 DEF Nodes
    <3> QED BY <3>1, <3>2, <2>1 DEF FillingInd
  <2>6. validate'
    BY <2>1 DEF validate
  <2> QED BY <2>1, <2>3, <2>4, <2>5, <2>6 DEF SortInd, SortInv, CyclesReported, Counted, Sorted, LaterStages
<1> QED BY <1>2, <1>3

\* One node looked at for the queue.
LEMMA FillInd ==
  ASSUME SortInd, sort_fill
  PROVE  SortInd'
<1> DEFINE n == scan + 1
<1>1. /\ stage = "filling" /\ scan < N
      /\ queue' = IF in_degree[n] = 0 THEN Append(queue, n) ELSE queue
      /\ scan' = n /\ UNCHANGED <<inputs, stage, in_degree, cur, order>>
  BY DEF sort_fill
<1>2. GraphTypeOK /\ FillingInd /\ validate /\ ProducersFirst
  BY <1>1 DEF SortInd, SortInv, Counted
<1>3. n \in Nodes /\ n \in 0..N /\ scan \in Nat
  BY <1>1, <1>2, GraphAssumption DEF GraphTypeOK, Nodes
<1>4. n \notin Queued
  BY <1>2, <1>3 DEF FillingInd
<1> HIDE DEF n
<1>5. \A m \in Nodes : m <= n <=> m <= scan \/ m = n
  BY <1>3 DEF n, Nodes
<1>6. /\ queue' \in Seq(Nodes) /\ IsInjective(queue')
      /\ Range(queue') = IF in_degree[n] = 0 THEN Queued \cup {n} ELSE Queued
  BY <1>1, <1>2, <1>3, <1>4, Pushed DEF GraphTypeOK, FillingInd, Queued
<1>7. FillingInd'
  BY <1>1, <1>2, <1>5, <1>6 DEF FillingInd, Queued
<1>8. GraphTypeOK' /\ ProducersFirst' /\ validate'
  BY <1>1, <1>2, <1>3, <1>6 DEF GraphTypeOK, ProducersFirst, OutputBefore, validate
<1> QED BY <1>1, <1>7, <1>8 DEF SortInd, SortInv, CyclesReported, Counted, Sorted, LaterStages

\* The queue is filled: every node without an input from another is in it.
LEMMA FilledInd ==
  ASSUME SortInd, sort_filled
  PROVE  SortInd'
<1>1. /\ stage = "filling" /\ scan = N /\ stage' = "sorting"
      /\ UNCHANGED <<inputs, in_degree, queue, cur, scan, order>>
  BY DEF sort_filled
<1>2. GraphTypeOK /\ FillingInd /\ validate /\ ProducersFirst
  BY <1>1 DEF SortInd, SortInv, Counted
<1>3. Outputs' = {} /\ Queued' = Queued
  BY <1>1, <1>2 DEF FillingInd, Outputs, Queued, Range
<1>4. ASSUME NEW n \in Nodes
      PROVE  /\ in_degree'[n] = Cardinality(Waiting(n)')
             /\ n \in Queued <=> in_degree'[n] = 0
  <2>1. Waiting(n)' = DOMAIN inputs[n]
    BY <1>1, <1>3 DEF Waiting, Relaxed
  <2>2. Cardinality(DOMAIN inputs[n]) = Len(inputs[n])
    BY <1>2, InputPlaces
  <2>3. n <= scan
    BY <1>1, GraphAssumption DEF Nodes
  <2> QED BY <2>1, <2>2, <2>3, <1>1, <1>2 DEF FillingInd
<1>5. ~(scan' < N')
  BY <1>1, GraphAssumption
<1>6. SortingInd'
  BY <1>1, <1>2, <1>3, <1>4, <1>5 DEF SortingInd, FillingInd
<1>7. GraphTypeOK' /\ ProducersFirst' /\ validate'
  BY <1>1, <1>2 DEF GraphTypeOK, ProducersFirst, OutputBefore, validate
<1> QED BY <1>1, <1>6, <1>7 DEF SortInd, SortInv, CyclesReported, Counted, Sorted, LaterStages
\* The front of the queue waits for nothing, so the producers of its inputs
\* are output before it.
LEMMA PopInd ==
  ASSUME SortInd, sort_pop
  PROVE  SortInd'
<1> DEFINE h == Head(queue)
<1>1. /\ stage = "sorting" /\ scan = N /\ queue # <<>>
      /\ cur' = h /\ queue' = Tail(queue) /\ order' = Append(order, h) /\ scan' = 0
      /\ UNCHANGED <<inputs, stage, in_degree>>
  BY DEF sort_pop
<1>2. GraphTypeOK /\ SortingInd /\ validate /\ ProducersFirst
  BY <1>1 DEF SortInd, SortInv, Counted
<1>3. /\ h \in Nodes /\ h \in Queued
      /\ queue' \in Seq(Nodes) /\ IsInjective(queue') /\ Range(queue') = Queued \ {h}
  BY <1>1, <1>2, Popped DEF GraphTypeOK, SortingInd, Queued
<1>4. h \notin Outputs /\ in_degree[h] = 0
  BY <1>2, <1>3 DEF SortingInd
<1> HIDE DEF h
<1>5. IsInjective(order) /\ order \in Seq(Nodes) /\ DOMAIN order = 1..Len(order) /\ Len(order) \in Nat
  BY <1>2 DEF GraphTypeOK, ProducersFirst, IsInjective
<1>6. /\ order' \in Seq(Nodes) /\ Len(order') = Len(order) + 1
      /\ \A i \in DOMAIN order : order'[i] = order[i]
      /\ order'[Len(order) + 1] = h
      /\ Range(order') = Outputs \cup {h}
      /\ IsInjective(order')
  BY <1>1, <1>3, <1>4, <1>5, Pushed DEF Outputs
<1>7. \A k \in DOMAIN inputs[h] : inputs[h][k] \in Outputs
  <2>1. Waiting(h) = {}
    <3>1. Waiting(h) \in SUBSET DOMAIN inputs[h]
      BY DEF Waiting
    <3>2. Cardinality(Waiting(h)) = 0
      BY <1>2, <1>3, <1>4 DEF SortingInd
    <3> QED BY <3>1, <3>2, <1>2, <1>3, InputPlaces
  <2>2. h <= scan
    BY <1>1, <1>3, GraphAssumption DEF Nodes
  <2> QED BY <2>1, <2>2 DEF Waiting, Relaxed
<1>8. ProducersFirst'
  <2>1. \A i, j \in DOMAIN order' : order'[i] = order'[j] => i = j
    BY <1>6 DEF IsInjective
  <2>2. SUFFICES ASSUME NEW i \in DOMAIN order', NEW k \in DOMAIN inputs[order'[i]]
                 PROVE  \E j \in 1..(i - 1) : order'[j] = inputs[order'[i]][k]
    <3>1. inputs' = inputs
      BY <1>1
    <3> QED BY <2>1, <3>1, Zenon DEF ProducersFirst, OutputBefore
  <2>3. CASE i = Len(order) + 1
    <3>1. inputs[h][k] \in Outputs
      BY <2>3, <1>6, <1>7
    <3>2. PICK j \in DOMAIN order : order[j] = inputs[h][k]
      BY <3>1 DEF Outputs, Range
    <3>3. j \in 1..(i - 1) /\ order'[j] = inputs[order'[i]][k]
      BY <2>3, <3>2, <1>5, <1>6
    <3> QED BY <3>3
  <2>4. CASE i # Len(order) + 1
    <3>1. i \in DOMAIN order /\ order'[i] = order[i]
      BY <2>4, <1>5, <1>6
    <3>2. PICK j \in 1..(i - 1) : order[j] = inputs[order[i]][k]
      BY <3>1, <1>2 DEF ProducersFirst, OutputBefore
    <3>3. j \in DOMAIN order
      BY <3>1, <3>2, <1>5
    <3> QED BY <3>1, <3>2, <3>3, <1>6
  <2> QED BY <2>3, <2>4
<1>9. SortingInd'
  <2>1. Outputs' = Outputs \cup {h} /\ Queued' = Queued \ {h}
    BY <1>3, <1>6 DEF Outputs, Queued
  <2>2. ASSUME NEW n \in Nodes PROVE Waiting(n)' = Waiting(n)
    <3>1. n <= scan /\ ~(n <= scan')
      BY <1>1, GraphAssumption DEF Nodes
    <3>2. Relaxed(n)' = Outputs
      BY <3>1, <2>1, <1>1, <1>4 DEF Relaxed
    <3>3. Relaxed(n) = Outputs
      BY <3>1 DEF Relaxed
    <3> QED BY <3>2, <3>3, <1>1 DEF Waiting
  <2>3. Queued' \cap Outputs' = {} /\ cur' \in Outputs'
    BY <2>1, <1>1, <1>2 DEF SortingInd
  <2> QED BY <2>1, <2>2, <2>3, <1>1, <1>2, <1>3 DEF SortingInd
<1>10. GraphTypeOK' /\ validate'
  BY <1>1, <1>2, <1>3, <1>6, GraphAssumption, SMTT(20) DEF GraphTypeOK, validate, Nodes
<1>11. stage' = "sorting"
  BY <1>1
<1>12. SortInv'
  BY <1>8, <1>10, <1>11 DEF SortInv, CyclesReported, LaterStages
<1> QED BY <1>9, <1>10, <1>11, <1>12 DEF SortInd, Sorted, LaterStages

\* The edges to one node are counted down: as many as the places where it
\* waited for cur.
LEMMA RelaxInd ==
  ASSUME SortInd, sort_relax
  PROVE  SortInd'
<1>0. PICK n \in Nodes : n = scan + 1
  BY GraphAssumption DEF SortInd, SortInv, GraphTypeOK, sort_relax, Nodes
<1> DEFINE E == {i \in DOMAIN inputs[n] : inputs[n][i] = cur}
           d == in_degree[n] - edges(cur, n)
<1>1. /\ stage = "sorting" /\ scan < N
      /\ in_degree' = [in_degree EXCEPT ![n] = d]
      /\ queue' = IF edges(cur, n) > 0 /\ d = 0 THEN Append(queue, n) ELSE queue
      /\ scan' = n /\ UNCHANGED <<inputs, stage, cur, order>>
  BY <1>0 DEF sort_relax
<1>2. GraphTypeOK /\ SortingInd /\ validate /\ ProducersFirst
  BY <1>1 DEF SortInd, SortInv, Counted
<1>3. n \in Nodes /\ n \in 0..N /\ scan \in Nat /\ ~(n <= scan) /\ cur \in Outputs
  BY <1>0, <1>1, <1>2, GraphAssumption DEF GraphTypeOK, Nodes, SortingInd
<1>4. \A m \in Nodes : m # n => (m <= n <=> m <= scan)
  BY <1>0, <1>3 DEF Nodes
<1>5. Outputs' = Outputs
  BY <1>1 DEF Outputs
<1>6. edges(cur, n) = Cardinality(E)
  BY DEF edges
<1> HIDE DEF d
<1>7. Waiting(n)' = Waiting(n) \ E /\ E \in SUBSET Waiting(n) /\ Waiting(n) \in SUBSET DOMAIN inputs[n]
  <2>1. Relaxed(n)' = Outputs /\ Relaxed(n) = Outputs \ {cur}
    <3>1. n <= n
      BY <1>3
    <3> QED BY <3>1, <1>1, <1>3, <1>5 DEF Relaxed
  <2> QED BY <2>1, <1>1, <1>3 DEF Waiting
<1> HIDE DEF E
<1>8. /\ Cardinality(E) \in Nat /\ Cardinality(Waiting(n)) \in Nat /\ Cardinality(Waiting(n)') \in Nat
      /\ Cardinality(Waiting(n)') = Cardinality(Waiting(n)) - Cardinality(E)
  <2>1. IsFiniteSet(Waiting(n)) /\ Cardinality(Waiting(n)) \in Nat /\ Cardinality(E) \in Nat
    BY <1>2, <1>3, <1>7, InputPlaces
  <2>2. Waiting(n) \ E \in SUBSET DOMAIN inputs[n] /\ Waiting(n) \cap E = E
    BY <1>7
  <2>3. Cardinality(Waiting(n) \ E) = Cardinality(Waiting(n)) - Cardinality(Waiting(n) \cap E)
    BY <2>1, FS_Difference
  <2>4. Cardinality(Waiting(n) \ E) \in Nat
    BY <2>2, <1>2, <1>3, InputPlaces
  <2> QED BY <2>1, <2>2, <2>3, <2>4, <1>7
<1>9. in_degree[n] = Cardinality(Waiting(n)) /\ d = Cardinality(Waiting(n)') /\ d \in Nat
  BY <1>2, <1>3, <1>6, <1>8 DEF SortingInd, d
<1>10. in_degree' \in [Nodes -> Nat] /\ in_degree'[n] = d /\ \A m \in Nodes : m # n => in_degree'[m] = in_degree[m]
  BY <1>1, <1>2, <1>3, <1>9 DEF GraphTypeOK
<1>11. \A m \in Nodes : m # n => Waiting(m)' = Waiting(m)
  BY <1>1, <1>4, <1>5 DEF Waiting, Relaxed
<1>12. n \in Queued \cup Outputs <=> in_degree[n] = 0
  BY <1>2, <1>3 DEF SortingInd
<1>13. CASE edges(cur, n) > 0 /\ d = 0
  <2>1. in_degree[n] > 0
    BY <1>6, <1>8, <1>9, <1>13
  <2>2. n \notin Queued \cup Outputs
    BY <2>1, <1>9, <1>12
  <2>3. queue' \in Seq(Nodes) /\ IsInjective(queue') /\ Queued' = Queued \cup {n}
    BY <2>2, <1>1, <1>2, <1>3, <1>13, Pushed DEF GraphTypeOK, SortingInd, Queued
  <2>4. Queued' \cap Outputs' = {}
    BY <2>2, <2>3, <1>2, <1>5 DEF SortingInd
  <2>5. SortingInd'
    BY <2>3, <2>4, <1>1, <1>2, <1>3, <1>5, <1>9, <1>10, <1>11, <1>13 DEF SortingInd
  <2>6. GraphTypeOK' /\ ProducersFirst' /\ validate'
    BY <2>3, <1>1, <1>2, <1>3, <1>10 DEF GraphTypeOK, ProducersFirst, OutputBefore, validate
  <2> QED BY <2>5, <2>6, <1>1 DEF SortInd, SortInv, CyclesReported, Counted, Sorted, LaterStages
<1>14. CASE ~(edges(cur, n) > 0 /\ d = 0)
  <2>1. queue' = queue /\ Queued' = Queued
    BY <1>1, <1>14 DEF Queued
  <2>2. d = 0 <=> in_degree[n] = 0
    <3>1. d = in_degree[n] - edges(cur, n) /\ edges(cur, n) \in Nat /\ in_degree[n] \in Nat
      BY <1>6, <1>8, <1>9 DEF d
    <3> QED BY <3>1, <1>9, <1>14
  <2>3. SortingInd'
    BY <2>1, <2>2, <1>1, <1>2, <1>3, <1>5, <1>9, <1>10, <1>11, <1>12 DEF SortingInd
  <2>4. GraphTypeOK' /\ ProducersFirst' /\ validate'
    BY <2>1, <1>1, <1>2, <1>3, <1>10 DEF GraphTypeOK, ProducersFirst, OutputBefore, validate
  <2> QED BY <2>3, <2>4, <1>1 DEF SortInd, SortInv, CyclesReported, Counted, Sorted, LaterStages
<1> QED BY <1>13, <1>14

\* When the queue runs empty, either every node is output or the others wait
\* for each other.
LEMMA EndInd ==
  ASSUME SortInd, sort_end
  PROVE  SortInd'
<1>1. /\ stage = "sorting" /\ scan = N /\ queue = <<>>
      /\ stage' = IF Len(order) = N THEN "sorted" ELSE "cyclic"
      /\ UNCHANGED <<inputs, in_degree, queue, cur, scan, order>>
  BY DEF sort_end
<1>2. GraphTypeOK /\ SortingInd /\ validate /\ ProducersFirst /\ IsInjective(order)
  BY <1>1 DEF SortInd, SortInv, Counted, ProducersFirst, IsInjective
<1>3. Len(order) = N <=> Outputs = Nodes
  BY <1>2, FullList DEF GraphTypeOK, Outputs
<1>4. GraphTypeOK' /\ ProducersFirst' /\ validate'
  BY <1>1, <1>2 DEF GraphTypeOK, ProducersFirst, OutputBefore, validate
<1>5. CASE Outputs = Nodes
  <2>1. stage' = "sorted" /\ Outputs' = Nodes /\ Len(order') = N
    BY <1>1, <1>3, <1>5 DEF Outputs
  <2>2. ~Cyclic'
    BY <1>1, <1>2, <1>5, SortedIsAcyclic DEF Cyclic
  <2>3. \A n \in Nodes : OutputBefore(n, N + 1)'
    <3>1. N \in Nat /\ DOMAIN order' = 1..N
      BY <2>1, <1>4, GraphAssumption DEF GraphTypeOK
    <3> QED BY <3>1, <2>1 DEF OutputBefore, Outputs, Range
  <2>4. CyclesReported'
    BY <2>1, <2>2, <2>3 DEF CyclesReported
  <2> QED BY <2>1, <2>4, <1>4 DEF SortInd, SortInv, Counted, Sorted, LaterStages
<1>6. CASE Outputs # Nodes
  <2>1. stage' = "cyclic"
    BY <1>1, <1>3, <1>6
  <2> DEFINE S == Nodes \ Outputs
  <2>2. S # {}
    <3>1. Outputs \subseteq Nodes
      BY <1>2 DEF GraphTypeOK, Outputs, Range
    <3> QED BY <3>1, <1>6
  <2>3. ASSUME NEW n \in S PROVE \E k \in DOMAIN inputs[n] : inputs[n][k] \in S
    <3>1. Queued = {}
      BY <1>1 DEF Queued, Range
    <3>2. Cardinality(Waiting(n)) # 0
      BY <3>1, <1>2 DEF SortingInd
    <3>3. Waiting(n) # {}
      BY <3>2, FS_EmptySet
    <3>4. PICK k \in DOMAIN inputs[n] : inputs[n][k] \notin Relaxed(n)
      BY <3>3 DEF Waiting
    <3>5. n <= scan
      BY <1>1, GraphAssumption DEF Nodes
    <3>6. inputs[n][k] \in Nodes /\ inputs[n][k] \notin Outputs
      BY <3>4, <3>5, <1>2 DEF Relaxed, validate
    <3> QED BY <3>6
  <2>4. Cyclic'
    <3>1. S \in (SUBSET Nodes) \ {{}}
      BY <2>2
    <3> HIDE DEF S
    <3>2. \E T \in (SUBSET Nodes) \ {{}} : \A n \in T : \E k \in DOMAIN inputs[n] : inputs[n][k] \in T
      BY <3>1, <2>3
    <3> QED BY <3>2, <1>1 DEF Cyclic
  <2>5. CyclesReported'
    BY <2>1, <2>4 DEF CyclesReported
  <2> QED BY <2>1, <2>5, <1>4 DEF SortInd, SortInv, Counted, Sorted, LaterStages
<1> QED BY <1>5, <1>6
\* A graph as it was built.
LEMMA GraphInitInd == ASSUME GraphInit PROVE SortInd
<1>1. inputs \in [Nodes -> InputLists] /\ InputLists \subseteq Seq(Ids)
  BY GraphAssumption DEF GraphInit
<1>2. inputs \in [Nodes -> Seq(Ids)]
  BY <1>1
<1>3. GraphTypeOK
  BY <1>2, GraphAssumption DEF GraphInit, GraphTypeOK, Nodes
<1> QED BY <1>3 DEF GraphInit, SortInd, SortInv, ProducersFirst, CyclesReported, Counted, Sorted, LaterStages

\* Every step of the sort.
LEMMA SortNextInd == ASSUME SortInd, [topological_sort]_graphVars PROVE SortInd'
<1>1. CASE UNCHANGED graphVars
  <2>1. UNCHANGED <<inputs, stage, in_degree, queue, cur, scan, order>>
    BY <1>1 DEF graphVars
  <2>2. GraphTypeOK' /\ ProducersFirst' /\ CyclesReported' /\ (stage \in Counted => validate')
    <3>1. GraphTypeOK' /\ ProducersFirst'
      BY <2>1 DEF SortInd, SortInv, GraphTypeOK, ProducersFirst, OutputBefore
    <3>2. Cyclic' <=> Cyclic
      BY <2>1 DEF Cyclic
    <3>3. \A n \in Nodes : OutputBefore(n, N + 1)' <=> OutputBefore(n, N + 1)
      BY <2>1 DEF OutputBefore
    <3>4. CyclesReported'
      BY <2>1, <3>2, <3>3 DEF SortInd, SortInv, CyclesReported
    <3>5. stage \in Counted => validate'
      BY <2>1 DEF SortInd, validate
    <3> QED BY <3>1, <3>4, <3>5
  <2>3. (stage = "filling" => FillingInd') /\ Outputs' = Outputs
    BY <2>1 DEF SortInd, FillingInd, Queued, Outputs
  <2>4. stage = "sorting" => SortingInd'
    BY <2>1 DEF SortInd, SortingInd, Queued, Outputs, Waiting, Relaxed
  <2> QED BY <2>1, <2>2, <2>3, <2>4 DEF SortInd, SortInv
<1> QED BY <1>1, SortBegun, FillInd, FilledInd, PopInd, RelaxInd, EndInd DEF topological_sort

\* topological_sort outputs producers first, each node once, and reports
\* exactly the graphs that have a cycle, self-loops and values that occur
\* twice in an input list included.
THEOREM GraphSorted == GraphSpec => []SortInv
<1>1. GraphInit => SortInd
  BY GraphInitInd
<1>2. SortInd /\ [topological_sort]_graphVars => SortInd'
  BY SortNextInd
<1>3. SortInd => SortInv
  BY DEF SortInd
<1> QED BY <1>1, <1>2, <1>3, PTL DEF GraphSpec

\* What the caller does with a sorted graph leaves it sorted.
LEMMA LaterInd ==
  ASSUME SortInd, stage \in Sorted, stage' \in LaterStages,
         UNCHANGED <<inputs, in_degree, queue, cur, scan, order>>
  PROVE  SortInd'
<1>1. GraphTypeOK' /\ ProducersFirst' /\ validate'
  BY DEF SortInd, SortInv, GraphTypeOK, ProducersFirst, OutputBefore, validate, Counted, Sorted, LaterStages
<1>2. Outputs' = Nodes /\ Len(order') = N
  BY DEF SortInd, Outputs
<1> QED BY <1>1, <1>2 DEF SortInd, SortInv, CyclesReported, Counted, Sorted, LaterStages

-----------------------------------------------------------------------------
(* Positions and lifetimes. *)

\* In a sorted graph every node has exactly one position.
LEMMA Positions ==
  ASSUME SortInd, stage \in Sorted
  PROVE  /\ \A n \in Nodes : position(n) \in 1..N /\ order[position(n)] = n
         /\ \A i \in 1..N : order[i] \in Nodes /\ position(order[i]) = i
<1>1. /\ DOMAIN order = 1..N /\ \A i \in 1..N : order[i] \in Nodes
      /\ \A i, j \in 1..N : order[i] = order[j] => i = j
      /\ \A n \in Nodes : \E i \in 1..N : order[i] = n
  <2>1. order \in Seq(Nodes) /\ Len(order) = N /\ Outputs = Nodes /\ ProducersFirst
    BY DEF SortInd, SortInv, GraphTypeOK
  <2>2. DOMAIN order = 1..N
    BY <2>1
  <2> QED BY <2>1, <2>2 DEF ProducersFirst, Outputs, Range
<1>2. ASSUME NEW n \in Nodes PROVE position(n) \in 1..N /\ order[position(n)] = n
  <2>1. \E i \in DOMAIN order : order[i] = n
    BY <1>1
  <2>2. position(n) \in DOMAIN order /\ order[position(n)] = n
    BY <2>1 DEF position
  <2> QED BY <2>2, <1>1
<1>3. ASSUME NEW i \in 1..N PROVE order[i] \in Nodes /\ position(order[i]) = i
  BY <1>1, <1>2
<1> QED BY <1>2, <1>3

\* A value is last used no earlier than it is produced, by no earlier node
\* than any of its consumers, and an output not before the end.
LEMMA Lifetime ==
  ASSUME SortInd, stage \in Sorted, NEW v \in Nodes
  PROVE  /\ first_node(v) \in 1..N /\ last_node(v) \in 1..N
         /\ first_node(v) = position(v) /\ position(v) <= last_node(v)
         /\ \A m \in consumers(v) : m \in Nodes /\ position(m) <= last_node(v)
         /\ value[v].kind = "Output" => last_node(v) = N
<1> DEFINE S == {position(n) : n \in consumers(v) \cup {v}}
<1>1. N \in Nat /\ consumers(v) \subseteq Nodes /\ \A n \in Nodes : position(n) \in 1..N
  BY Positions, GraphAssumption DEF consumers
<1>2. S \in SUBSET (0..N) /\ S # {} /\ position(v) \in S /\ \A m \in consumers(v) : position(m) \in S
  BY <1>1
<1>3. last_node(v) = IF value[v].kind = "Output" THEN N ELSE Max(S)
  BY DEF last_node
<1> HIDE DEF S
<1>4. Max(S) \in 0..N /\ \A x \in S : x <= Max(S)
  BY <1>1, <1>2, GreatestElement
<1>5. position(v) <= last_node(v) /\ \A m \in consumers(v) : position(m) <= last_node(v)
  <2>1. CASE value[v].kind = "Output"
    <3>1. last_node(v) = N
      BY <2>1, <1>3
    <3>2. \A n \in Nodes : position(n) <= N
      BY <1>1
    <3> QED BY <3>1, <3>2, <1>1
  <2>2. CASE value[v].kind # "Output"
    BY <2>2, <1>2, <1>3, <1>4
  <2> QED BY <2>1, <2>2
<1>6. last_node(v) \in 0..N
  BY <1>1, <1>3, <1>4
<1>7. position(v) \in 1..N /\ first_node(v) = position(v)
  BY <1>1 DEF first_node
<1>8. last_node(v) \in 1..N
  BY <1>5, <1>6, <1>7, <1>1
<1> QED BY <1>1, <1>3, <1>5, <1>7, <1>8
-----------------------------------------------------------------------------
(* The plan. *)

\* align_up rounds up.
LEMMA AlignUp ==
  ASSUME NEW n \in Nat
  PROVE  align_up(n, Alignment) \in Nat /\ n <= align_up(n, Alignment)
<1>1. Alignment \in Nat \ {0}
  BY PlannerAssumption
<1>2. n % Alignment \in 0..(Alignment - 1)
  BY <1>1
<1> QED BY <1>1, <1>2 DEF align_up

\* What values may be.
LEMMA SpecsType ==
  ASSUME PlannerTypeOK, NEW v \in Nodes
  PROVE  /\ value[v].pool \in Pools /\ value[v].bytes \in Nat
         /\ aligned_bytes(v) \in Nat /\ value[v].bytes <= aligned_bytes(v)
<1>1. value[v] \in ValueSpecs
  BY DEF PlannerTypeOK
<1>2. value[v].pool \in Pools /\ value[v].bytes \in Nat
  BY <1>1, PlannerAssumption
<1> QED BY <1>2, AlignUp DEF aligned_bytes

\* What buffers are.
LEMMA BuffersType ==
  ASSUME NEW bs \in Seq([bytes : Nat, pool : Pools, last_use : Nodes])
  PROVE  /\ DOMAIN bs = 1..Len(bs) /\ Len(bs) \in Nat
         /\ \A b \in DOMAIN bs : /\ bs[b].bytes \in Nat /\ bs[b].pool \in Pools
                                 /\ bs[b].last_use \in Nodes /\ bs[b].last_use \in Nat
<1> DEFINE R == [bytes : Nat, pool : Pools, last_use : Nodes]
<1>0. bs \in Seq(R)
  OBVIOUS
<1> HIDE DEF R
<1>1. DOMAIN bs = 1..Len(bs) /\ Len(bs) \in Nat
  BY <1>0
<1>2. \A b \in DOMAIN bs : bs[b] \in R
  BY <1>0
<1> USE DEF R
<1>3. \A b \in DOMAIN bs : bs[b].bytes \in Nat /\ bs[b].pool \in Pools /\ bs[b].last_use \in Nodes
  BY <1>2
<1>4. Nodes \subseteq Nat
  BY GraphAssumption DEF Nodes
<1> QED BY <1>1, <1>3, <1>4

\* The first of the fitting buffers is one of them.
LEMMA BestFit ==
  ASSUME PlannerInd, NEW v \in Nodes, fitting(v) # {}
  PROVE  best_fit(v) \in fitting(v)
<1> DEFINE F == fitting(v)
           sizes == {buffers[b].bytes : b \in F}
           G == {b \in F : buffers[b].bytes = Min(sizes)}
<1>1. F \in SUBSET Nat /\ \A b \in F : buffers[b].bytes \in Nat
  <2>1. buffers \in Seq([bytes : Nat, pool : Pools, last_use : Nodes])
    BY DEF PlannerInd
  <2>2. /\ DOMAIN buffers = 1..Len(buffers) /\ Len(buffers) \in Nat
        /\ \A b \in DOMAIN buffers : buffers[b].bytes \in Nat
    BY <2>1, BuffersType
  <2>3. F \subseteq DOMAIN buffers
    BY DEF fitting
  <2> QED BY <2>2, <2>3
<1>2. Min(sizes) \in sizes /\ \A x \in sizes : Min(sizes) <= x
  <2>1. sizes \in SUBSET Nat /\ sizes # {}
    BY <1>1
  <2> HIDE DEF sizes
  <2> QED BY <2>1, LeastElement
<1>3. \A b \in F : buffers[b].bytes \in sizes
  OBVIOUS
<1> HIDE DEF sizes, F
<1>4. PICK m \in Nat : m = Min(sizes) /\ \A b \in F : m <= buffers[b].bytes
  <2>1. Min(sizes) \in Nat
    BY <1>1, <1>2 DEF sizes
  <2> QED BY <2>1, <1>2, <1>3
<1>5. G \in SUBSET Nat /\ G # {}
  BY <1>1, <1>2 DEF sizes
<1>6. Min(G) \in G /\ \A x \in G : Min(G) <= x
  <2> HIDE DEF G
  <2> QED BY <1>5, LeastElement
<1>7. PICK b \in F : buffers[b].bytes = m /\ \A c \in F : buffers[c].bytes = m => b <= c
  BY <1>4, <1>6
<1>8. \A c \in F : \/ buffers[b].bytes < buffers[c].bytes
                   \/ buffers[b].bytes = buffers[c].bytes /\ b <= c
  BY <1>1, <1>4, <1>7
<1>9. \E a \in fitting(v) : \A c \in fitting(v) :
                    \/ buffers[a].bytes < buffers[c].bytes
                    \/ buffers[a].bytes = buffers[c].bytes /\ a <= c
  BY <1>8 DEF F
<1> QED BY <1>9 DEF best_fit

\* While the order, the input lists and the values stay, so do the lifetimes.
LEMMA SameLifetimes ==
  ASSUME UNCHANGED <<inputs, order, value>>, NEW v \in Nodes
  PROVE  /\ position(v)' = position(v) /\ first_node(v)' = first_node(v)
         /\ last_node(v)' = last_node(v) /\ consumers(v)' = consumers(v)
<1>1. \A n \in Nodes : position(n)' = position(n)
  BY DEF position
<1>2. consumers(v)' = consumers(v) /\ consumers(v) \subseteq Nodes
  BY DEF consumers
<1>3. {position(n)' : n \in consumers(v)' \cup {v}} = {position(n) : n \in consumers(v) \cup {v}}
  BY <1>1, <1>2
<1>4. last_node(v)' = last_node(v)
  BY <1>3 DEF last_node
<1> QED BY <1>1, <1>2, <1>4 DEF first_node

\* A value is given buffer b, which either is new or was past its last use.
LEMMA PlacedInd ==
  ASSUME PlannerInd, stage = "planning", NEW v \in unplaced, \A u \in unplaced : ~Before(u, v),
         unplaced' = unplaced \ {v}, UNCHANGED <<inputs, order, value>>,
         NEW b \in Nat \ {0}, buffer_id' = [buffer_id EXCEPT ![v] = b],
         live' = still_live(v) \cup {b},
         buffers' \in Seq([bytes : Nat, pool : Pools, last_use : Nodes]),
         DOMAIN buffers' = DOMAIN buffers \cup {b},
         buffers'[b].pool = value[v].pool, value[v].bytes <= buffers'[b].bytes,
         buffers'[b].last_use = last_node(v),
         b \in DOMAIN buffers => buffers[b].last_use < first_node(v),
         \A c \in DOMAIN buffers : /\ buffers'[c].pool = buffers[c].pool
                                   /\ buffers'[c].bytes = buffers[c].bytes
                                   /\ c # b => buffers'[c] = buffers[c]
  PROVE  ReuseIsSafe' /\ UseCovered' /\ PlacedInOrder' /\ live' \subseteq DOMAIN buffers'
<1>1. /\ SortInd /\ stage \in Sorted /\ v \in Nodes /\ unplaced \subseteq Nodes
      /\ ReuseIsSafe /\ UseCovered /\ PlacedInOrder
      /\ buffer_id \in [Nodes -> 0..Len(buffers)]
      /\ DOMAIN buffers = 1..Len(buffers) /\ Len(buffers) \in Nat
      /\ \A c \in DOMAIN buffers : buffers[c].last_use \in Nat
      /\ live \subseteq DOMAIN buffers
      /\ N \in Nat
  <2>1. /\ DOMAIN buffers = 1..Len(buffers) /\ Len(buffers) \in Nat
        /\ \A c \in DOMAIN buffers : buffers[c].last_use \in Nat
    BY BuffersType DEF PlannerInd
  <2>2. SortInd /\ PlannerTypeOK /\ ReuseIsSafe /\ UseCovered /\ PlacedInOrder /\ stage \in Sorted
    BY DEF PlannerInd, PlanInv, Sorted, LaterStages
  <2>3. /\ unplaced \subseteq Nodes /\ buffer_id \in [Nodes -> 0..Len(buffers)]
        /\ live \subseteq DOMAIN buffers
    BY <2>2 DEF PlannerTypeOK
  <2> QED BY <2>1, <2>2, <2>3, GraphAssumption
<1>2. \A u \in Nodes : /\ first_node(u) \in Nat /\ last_node(u) \in Nat /\ first_node(u) <= last_node(u)
                       /\ first_node(u)' = first_node(u) /\ last_node(u)' = last_node(u)
  <2> TAKE u \in Nodes
  <2>1. first_node(u) \in 1..N /\ last_node(u) \in 1..N /\ first_node(u) <= last_node(u)
    BY <1>1, Lifetime
  <2> QED BY <2>1, SameLifetimes
<1>3. \A u \in unplaced : u # v => first_node(v) < first_node(u)
  <2> SUFFICES ASSUME NEW u \in unplaced, u # v PROVE first_node(v) < first_node(u)
    OBVIOUS
  <2>1. ~(first_node(u) < first_node(v))
    BY DEF Before
  <2>2. first_node(u) # first_node(v)
    <3>1. order[position(u)] = u /\ order[position(v)] = v
      BY <1>1, Positions
    <3> QED BY <3>1 DEF first_node
  <2> QED BY <2>1, <2>2, <1>1, <1>2
<1>4. \A c \in DOMAIN buffers \ still_live(v) : buffers[c].last_use < first_node(v)
  <2> TAKE c \in DOMAIN buffers \ still_live(v)
  <2>1. c \in live => ~(buffers[c].last_use >= first_node(v))
    BY DEF still_live
  <2>2. c \notin live => buffers[c].last_use < first_node(v)
    BY <1>1 DEF PlacedInOrder
  <2>3. buffers[c].last_use \in Nat /\ first_node(v) \in Nat
    BY <1>1, <1>2
  <2> QED BY <2>1, <2>2, <2>3
<1>5. /\ buffer_id'[v] = b
      /\ \A u \in Nodes : u # v => buffer_id'[u] = buffer_id[u]
      /\ \A u \in Nodes : buffer_id[u] # 0 => buffer_id[u] \in DOMAIN buffers
  BY <1>1
<1>6. \A u \in Nodes : u # v /\ buffer_id[u] = b => last_node(u) < first_node(v)
  <2> SUFFICES ASSUME NEW u \in Nodes, buffer_id[u] = b PROVE last_node(u) < first_node(v)
    OBVIOUS
  <2>1. b \in DOMAIN buffers /\ last_node(u) <= buffers[b].last_use
    BY <1>1, <1>5 DEF UseCovered
  <2> QED BY <2>1, <1>1, <1>2
<1>7. ReuseIsSafe'
  <2>1. ASSUME NEW u \in Nodes, buffer_id'[u] # 0
        PROVE  /\ buffers'[buffer_id'[u]].pool = value[u].pool
               /\ value[u].bytes <= buffers'[buffer_id'[u]].bytes
    BY <2>1, <1>1, <1>5 DEF ReuseIsSafe
  <2>2. ASSUME NEW u \in Nodes, NEW w \in Nodes, buffer_id'[w] # 0, u # w, buffer_id'[u] = buffer_id'[w]
        PROVE  last_node(u) < first_node(w) \/ last_node(w) < first_node(u)
    <3>1. CASE u = v
      BY <3>1, <2>2, <1>5, <1>6
    <3>2. CASE w = v
      BY <3>2, <2>2, <1>5, <1>6
    <3>3. CASE u # v /\ w # v
      BY <3>3, <2>2, <1>1, <1>5 DEF ReuseIsSafe
    <3> QED BY <3>1, <3>2, <3>3
  <2> QED BY <2>1, <2>2, <1>2 DEF ReuseIsSafe
<1>8. UseCovered'
  <2> SUFFICES ASSUME NEW u \in Nodes, buffer_id'[u] # 0
               PROVE  last_node(u) <= buffers'[buffer_id'[u]].last_use
    BY <1>2 DEF UseCovered
  <2>1. CASE u = v
    BY <2>1, <1>2, <1>5
  <2>2. CASE u # v /\ buffer_id[u] = b
    <3>1. last_node(u) < first_node(v) /\ first_node(v) <= last_node(v)
      BY <2>2, <1>1, <1>2, <1>6
    <3> QED BY <3>1, <2>2, <1>1, <1>2, <1>5
  <2>3. CASE u # v /\ buffer_id[u] # b
    BY <2>3, <1>1, <1>5 DEF UseCovered
  <2> QED BY <2>1, <2>2, <2>3
<1>9. PlacedInOrder'
  <2> SUFFICES ASSUME NEW u \in unplaced, u # v
               PROVE  /\ buffer_id'[u] = 0
                      /\ \A w \in Nodes : buffer_id'[w] # 0 => first_node(w) < first_node(u)
                      /\ \A c \in DOMAIN buffers' \ live' : buffers'[c].last_use < first_node(u)
    BY <1>1, <1>2 DEF PlacedInOrder
  <2>1. buffer_id'[u] = 0 /\ u \in Nodes
    BY <1>1, <1>5 DEF PlacedInOrder
  <2>2. \A w \in Nodes : buffer_id'[w] # 0 => first_node(w) < first_node(u)
    BY <1>1, <1>3, <1>5 DEF PlacedInOrder
  <2>3. ASSUME NEW c \in DOMAIN buffers' \ live' PROVE buffers'[c].last_use < first_node(u)
    <3>1. c \in DOMAIN buffers \ still_live(v) /\ c # b
      OBVIOUS
    <3>2. buffers'[c] = buffers[c] /\ buffers[c].last_use < first_node(v) /\ first_node(v) < first_node(u)
      BY <3>1, <1>3, <1>4
    <3> QED BY <3>1, <3>2, <2>1, <1>1, <1>2
  <2> QED BY <2>1, <2>2, <2>3
<1>10. live' \subseteq DOMAIN buffers'
  BY <1>1 DEF still_live
<1> QED BY <1>7, <1>8, <1>9, <1>10
\* The parts of the invariant that speak of the plan stay while it does.
LEMMA PlanKept ==
  ASSUME PlannerInd, UNCHANGED <<inputs, order, value, unplaced, buffers, live, buffer_id>>
  PROVE  ReuseIsSafe' /\ UseCovered' /\ buffers' \in Seq([bytes : Nat, pool : Pools, last_use : Nodes])
<1>1. ReuseIsSafe /\ UseCovered /\ buffers \in Seq([bytes : Nat, pool : Pools, last_use : Nodes])
  BY DEF PlannerInd, PlanInv
<1>2. \A v \in Nodes : first_node(v)' = first_node(v) /\ last_node(v)' = last_node(v)
  BY SameLifetimes
<1>3. ReuseIsSafe'
  BY <1>1, <1>2 DEF ReuseIsSafe
<1>4. UseCovered'
  BY <1>1, <1>2 DEF UseCovered
<1> QED BY <1>1, <1>3, <1>4

\* Those that speak of the arenas stay while they do.
LEMMA ArenasKept ==
  ASSUME PlannerInd, UNCHANGED <<buffers, offset, arena_end>>
  PROVE  ArenaDisjoint' /\ LaidOut'
BY DEF PlannerInd, PlanInv, ArenaDisjoint, LaidOut

\* The state before a plan is made, and what the invariant says of a plan.
Unplanned == /\ NoPlan /\ offset = <<>> /\ executed = 0 /\ stage # "allocated"
             /\ value \in [Nodes -> ValueSpecs] /\ arena_end \in [Pools -> Int]
PlanSafe  == /\ PlanInv /\ UseCovered /\ LaidOut /\ LiveValuesIntact
             /\ buffers \in Seq([bytes : Nat, pool : Pools, last_use : Nodes])

\* Without a plan nothing is claimed of it.
LEMMA WithoutPlan ==
  Unplanned => PlanSafe
<1> SUFFICES ASSUME Unplanned PROVE PlanSafe
  OBVIOUS
<1> USE DEF Unplanned
<1>1. N \in Nat /\ DOMAIN buffers = {} /\ DOMAIN offset = {} /\ Len(buffers) = 0 /\ Len(offset) = 0
  BY GraphAssumption DEF NoPlan
<1>2. buffer_id = [v \in Nodes |-> 0] /\ unplaced = {} /\ live = {} /\ buffers = <<>>
  BY DEF NoPlan
<1>3. PlannerTypeOK
  BY <1>1, <1>2 DEF PlannerTypeOK
<1>4. ReuseIsSafe /\ UseCovered
  BY <1>2 DEF ReuseIsSafe, UseCovered
<1>5. ArenaDisjoint /\ LaidOut
  BY <1>1 DEF ArenaDisjoint, LaidOut
<1> QED BY <1>2, <1>3, <1>4, <1>5 DEF PlanInv, LiveValuesIntact, PlanSafe

\* The start.
LEMMA PlannerInitInd == ASSUME PlannerInit PROVE PlannerInd
<1>1. /\ GraphInit /\ NoPlan /\ offset = <<>> /\ executed = 0 /\ running = FALSE
      /\ arena_end = [p \in Pools |-> -1] /\ stage = "built"
      /\ value \in [Nodes -> IF Forward THEN ValueSpecs ELSE PlainSpecs]
  BY DEF PlannerInit, NoPlan, GraphInit
<1>2. value \in [Nodes -> ValueSpecs]
  BY <1>1, PlannerAssumption
<1>3. SortInd
  BY <1>1, GraphInitInd
<1>4. arena_end \in [Pools -> Int]
  BY <1>1
<1>5. PlanSafe
  BY <1>1, <1>2, <1>4, WithoutPlan DEF Unplanned
<1> QED BY <1>1, <1>3, <1>5 DEF PlannerInd, PlanSafe, NoRun, LaterStages

\* The steps of the sort, and the start of the plan.
LEMMA SortStepInd ==
  ASSUME PlannerInd, topological_sort, UNCHANGED <<planVars, runVars>>
  PROVE  PlannerInd'
<1>1. SortInd'
  BY SortNextInd DEF PlannerInd
<1>2. stage \notin LaterStages /\ stage' \notin LaterStages
  BY DEF topological_sort, sort_invalid, sort_begin, sort_fill, sort_filled, sort_pop, sort_relax,
         sort_end, LaterStages
<1>3. UNCHANGED <<value, unplaced, buffers, live, buffer_id, offset, arena_end, executed, running, bytes_of>>
  BY DEF planVars, runVars
<1>4. /\ NoPlan /\ offset = <<>> /\ executed = 0 /\ running = FALSE /\ value \in [Nodes -> ValueSpecs]
      /\ arena_end \in [Pools -> Int]
  BY <1>2 DEF PlannerInd, PlanInv, PlannerTypeOK, NoRun, LaidOut, LaterStages
<1>5. /\ NoPlan' /\ offset' = <<>> /\ executed' = 0 /\ running' = FALSE /\ value' \in [Nodes -> ValueSpecs]
      /\ arena_end' \in [Pools -> Int] /\ stage' # "allocated"
  BY <1>2, <1>3, <1>4 DEF NoPlan, LaterStages
<1>6. Unplanned'
  BY <1>5 DEF Unplanned
<1>7. PlanSafe'
  BY <1>6, WithoutPlan, PTL
<1> QED BY <1>1, <1>2, <1>5, <1>7 DEF PlannerInd, PlanSafe, NoRun, LaterStages

\* The eligible values are collected.
LEMMA PlanBeginInd ==
  ASSUME PlannerInd, plan_begin
  PROVE  PlannerInd'
<1>1. /\ stage = "sorted" /\ stage' = "planning" /\ unplaced' = {v \in Nodes : eligible(v)}
      /\ UNCHANGED <<inputs, in_degree, queue, cur, scan, order, value, buffers, live, buffer_id>>
      /\ UNCHANGED <<offset, arena_end, executed, running, bytes_of>>
  BY DEF plan_begin, runVars
<1>2. SortInd'
  BY <1>1, LaterInd DEF PlannerInd, Sorted, LaterStages
<1>3. /\ buffers = <<>> /\ live = {} /\ buffer_id = [v \in Nodes |-> 0]
      /\ offset = <<>> /\ executed = 0 /\ running = FALSE /\ value \in [Nodes -> ValueSpecs]
      /\ LaidOut /\ N \in Nat
  BY <1>1, GraphAssumption DEF PlannerInd, PlanInv, PlannerTypeOK, NoPlan, NoRun, LaterStages
<1>4. /\ DOMAIN buffers' = {} /\ DOMAIN offset' = {} /\ Len(buffers') = 0 /\ Len(offset') = 0
      /\ unplaced' \subseteq Nodes /\ \A v \in Nodes : buffer_id'[v] = 0
  BY <1>1, <1>3
<1>5. PlannerTypeOK' /\ ReuseIsSafe' /\ ArenaDisjoint' /\ UseCovered'
  BY <1>1, <1>3, <1>4 DEF PlannerTypeOK, ReuseIsSafe, ArenaDisjoint, UseCovered
<1>6. LaidOut' /\ PlacedInOrder' /\ LiveValuesIntact'
  BY <1>1, <1>3, <1>4 DEF LaidOut, PlacedInOrder, LiveValuesIntact
<1>7. buffers' \in Seq([bytes : Nat, pool : Pools, last_use : Nodes])
  BY <1>1, <1>3
<1> QED BY <1>1, <1>2, <1>3, <1>5, <1>6, <1>7 DEF PlannerInd, PlanInv, NoRun, LaterStages

\* One value is given a buffer.
LEMMA PlaceInd ==
  ASSUME PlannerInd, NEW v \in Nodes, place(v)
  PROVE  PlannerInd'
<1> DEFINE R == [bytes : Nat, pool : Pools, last_use : Nodes]
<1>1. /\ stage = "planning" /\ stage' = "planning" /\ v \in unplaced /\ \A u \in unplaced : ~Before(u, v)
      /\ unplaced' = unplaced \ {v}
      /\ UNCHANGED <<inputs, in_degree, queue, cur, scan, order, value>>
      /\ UNCHANGED <<offset, arena_end, executed, running, bytes_of>>
  BY DEF place, runVars
<1>2. /\ SortInd /\ stage \in Sorted /\ PlannerTypeOK /\ PlacedInOrder /\ offset = <<>> /\ LaidOut
      /\ executed = 0 /\ running = FALSE /\ N \in Nat /\ buffers \in Seq(R)
  BY <1>1, GraphAssumption DEF PlannerInd, PlanInv, NoRun, Sorted, LaterStages
<1>3. /\ DOMAIN buffers = 1..Len(buffers) /\ Len(buffers) \in Nat
      /\ \A b \in DOMAIN buffers : /\ buffers[b] \in R /\ buffers[b].bytes \in Nat /\ buffers[b].pool \in Pools
                                   /\ buffers[b].last_use \in Nat
  <2>1. \A b \in DOMAIN buffers : buffers[b] \in R
    <3> HIDE DEF R
    <3> QED BY <1>2
  <2> QED BY <2>1, <1>2, BuffersType
<1>4. /\ last_node(v) \in Nodes /\ last_node(v) \in Nat /\ first_node(v) \in Nat
      /\ value[v].pool \in Pools /\ value[v].bytes \in Nat
      /\ aligned_bytes(v) \in Nat /\ value[v].bytes <= aligned_bytes(v)
  <2>1. first_node(v) \in 1..N /\ last_node(v) \in 1..N
    BY <1>2, Lifetime
  <2>2. last_node(v) \in Nodes /\ last_node(v) \in Nat /\ first_node(v) \in Nat
    BY <2>1, <1>2 DEF Nodes
  <2> QED BY <2>2, <1>2, SpecsType
<1>5. ASSUME NEW b \in Nat \ {0}, buffer_id' = [buffer_id EXCEPT ![v] = b],
             live' = still_live(v) \cup {b}, buffers' \in Seq(R),
             DOMAIN buffers' = DOMAIN buffers \cup {b},
             buffers'[b].pool = value[v].pool, value[v].bytes <= buffers'[b].bytes,
             buffers'[b].last_use = last_node(v),
             b \in DOMAIN buffers => buffers[b].last_use < first_node(v),
             \A c \in DOMAIN buffers : /\ buffers'[c].pool = buffers[c].pool
                                       /\ buffers'[c].bytes = buffers[c].bytes
                                       /\ c # b => buffers'[c] = buffers[c]
      PROVE  PlannerInd'
  <2>1. ReuseIsSafe' /\ UseCovered' /\ PlacedInOrder' /\ live' \subseteq DOMAIN buffers'
    BY <1>1, <1>5, PlacedInd
  <2>2. SortInd'
    BY <1>1, <1>2, LaterInd DEF LaterStages
  <2>3. /\ DOMAIN buffers' = 1..Len(buffers') /\ Len(buffers') \in Nat
        /\ \A c \in DOMAIN buffers' : /\ buffers'[c].bytes \in Nat /\ buffers'[c].pool \in Pools
                                      /\ buffers'[c].last_use \in Nodes
    BY <1>5, BuffersType
  <2>4. buffer_id' \in [Nodes -> 0..Len(buffers')]
    <3>1. buffer_id \in [Nodes -> 0..Len(buffers)]
      BY <1>2 DEF PlannerTypeOK
    <3>2. \A i \in 0..Len(buffers) : i \in 0..Len(buffers')
      <4>1. Len(buffers) = 0 \/ Len(buffers) \in DOMAIN buffers
        BY <1>3
      <4>2. Len(buffers) <= Len(buffers')
        BY <4>1, <1>3, <1>5, <2>3
      <4> QED BY <4>2, <1>3, <2>3
    <3>3. b \in 0..Len(buffers')
      BY <1>5, <2>3
    <3> QED BY <3>1, <3>2, <3>3, <1>5
  <2>5. PlannerTypeOK'
    BY <2>1, <2>3, <2>4, <1>1, <1>2 DEF PlannerTypeOK
  <2>6. ArenaDisjoint' /\ LaidOut' /\ LiveValuesIntact'
    BY <2>3, <1>1, <1>2 DEF ArenaDisjoint, LaidOut, LiveValuesIntact
  <2> QED BY <2>1, <2>2, <2>5, <2>6, <1>1, <1>2, <1>5 DEF PlannerInd, PlanInv, NoRun, LaterStages
<1>6. CASE fitting(v) # {}
  <2>1. PICK b \in fitting(v) : b = best_fit(v)
    BY <1>6, BestFit
  <2>2. /\ b \in DOMAIN buffers /\ b \notin still_live(v)
        /\ buffers[b].pool = value[v].pool /\ buffers[b].bytes >= aligned_bytes(v)
    BY DEF fitting
  <2>3. /\ buffers' = [buffers EXCEPT ![b].last_use = last_node(v)]
        /\ buffer_id' = [buffer_id EXCEPT ![v] = b]
        /\ live' = still_live(v) \cup {b}
    BY <2>1, <1>6 DEF place
  <2>4. b \in Nat \ {0} /\ value[v].bytes <= buffers[b].bytes
    BY <2>2, <1>3, <1>4
  <2>5. buffers[b].last_use < first_node(v)
    <3>1. b \in live => ~(buffers[b].last_use >= first_node(v))
      BY <2>2 DEF still_live
    <3>2. b \notin live => buffers[b].last_use < first_node(v)
      BY <2>2, <1>1, <1>2 DEF PlacedInOrder
    <3> QED BY <3>1, <3>2, <2>2, <1>3, <1>4
  <2>6. /\ DOMAIN buffers' = DOMAIN buffers
        /\ buffers'[b].last_use = last_node(v)
        /\ \A c \in DOMAIN buffers : /\ buffers'[c].pool = buffers[c].pool
                                     /\ buffers'[c].bytes = buffers[c].bytes
                                     /\ c # b => buffers'[c] = buffers[c]
    BY <2>2, <2>3, <1>3
  <2>7. buffers' \in Seq(R)
    <3>1. \A c \in DOMAIN buffers : buffers'[c] \in R
      BY <2>2, <2>3, <1>3, <1>4
    <3>2. buffers' = [c \in DOMAIN buffers |-> buffers'[c]]
      BY <2>3
    <3> HIDE DEF R
    <3>3. buffers' \in [1..Len(buffers) -> R] /\ Len(buffers) \in Nat
      BY <3>1, <3>2, <1>3
    <3> QED BY <3>3, SeqDef
  <2>8. /\ DOMAIN buffers' = DOMAIN buffers \cup {b} /\ buffers'[b].pool = value[v].pool
        /\ value[v].bytes <= buffers'[b].bytes
    BY <2>2, <2>4, <2>6
  <2> HIDE DEF R
  <2> QED BY <2>3, <2>4, <2>5, <2>6, <2>7, <2>8, <1>5
<1>7. CASE fitting(v) = {}
  <2> DEFINE r == [bytes |-> aligned_bytes(v), pool |-> value[v].pool, last_use |-> last_node(v)]
  <2>1. PICK b \in Nat : b = Len(buffers) + 1
    BY <1>3
  <2>2. /\ buffers' = Append(buffers, r)
        /\ buffer_id' = [buffer_id EXCEPT ![v] = b]
        /\ live' = still_live(v) \cup {b}
    BY <2>1, <1>7 DEF place
  <2>3. r \in R /\ r.bytes = aligned_bytes(v) /\ r.pool = value[v].pool /\ r.last_use = last_node(v)
    BY <1>4
  <2> HIDE DEF r, R
  <2>4. /\ buffers' \in Seq(R) /\ DOMAIN buffers' = 1..(Len(buffers) + 1) /\ buffers'[Len(buffers) + 1] = r
        /\ \A c \in 1..Len(buffers) : buffers'[c] = buffers[c]
    BY <2>2, <2>3, <1>2
  <2>5. b \in Nat \ {0} /\ b \notin DOMAIN buffers /\ DOMAIN buffers' = DOMAIN buffers \cup {b} /\ buffers'[b] = r
    BY <2>1, <2>4, <1>3
  <2>6. \A c \in DOMAIN buffers : buffers'[c] = buffers[c]
    BY <2>4, <1>3
  <2> QED BY <2>2, <2>3, <2>4, <2>5, <2>6, <1>4, <1>5, ZenonT(40)
<1> QED BY <1>6, <1>7
\* What is left to show of a step that keeps the plan.
LEMMA KeptInd ==
  ASSUME PlannerInd, stage \in LaterStages, stage' \in LaterStages \ {"planning"},
         UNCHANGED <<inputs, in_degree, queue, cur, scan, order, value, unplaced, buffers, live, buffer_id>>,
         LaidOut', ArenaDisjoint', executed' \in 0..N, running' \in BOOLEAN,
         running' => stage' = "allocated" /\ executed' < N,
         stage' \notin {"allocated", "failed"} => NoRun',
         stage' = "allocated" => Len(offset') = Len(buffers') /\ Arenas',
         LiveValuesIntact'
  PROVE  PlannerInd'
<1>1. SortInd /\ stage \in Sorted /\ PlannerTypeOK
  BY DEF PlannerInd, PlanInv, Sorted
<1>2. SortInd'
  BY <1>1, LaterInd
<1>3. ReuseIsSafe' /\ UseCovered' /\ buffers' \in Seq([bytes : Nat, pool : Pools, last_use : Nodes])
  BY PlanKept
<1>4. \A b \in DOMAIN offset' : offset'[b] \in Nat
  BY DEF LaidOut
<1>5. PlannerTypeOK'
  BY <1>1, <1>4 DEF PlannerTypeOK
<1> QED BY <1>2, <1>3, <1>5 DEF PlannerInd, PlanInv, LaterStages

\* Every range has a buffer.
LEMMA PlanEndInd ==
  ASSUME PlannerInd, plan_end
  PROVE  PlannerInd'
<1>1. /\ stage = "planning" /\ stage' = "layout"
      /\ UNCHANGED <<inputs, in_degree, queue, cur, scan, order, value, unplaced, buffers, live, buffer_id>>
      /\ UNCHANGED <<offset, arena_end, executed, running, bytes_of>>
  BY DEF plan_end, planVars, runVars
<1>2. ArenaDisjoint' /\ LaidOut'
  BY <1>1, ArenasKept
<1>3. executed = 0 /\ running = FALSE /\ N \in Nat
  BY <1>1, GraphAssumption DEF PlannerInd, NoRun
<1>4. LiveValuesIntact' /\ NoRun'
  BY <1>1, <1>3 DEF LiveValuesIntact, NoRun
<1>5. /\ executed' \in 0..N /\ running' \in BOOLEAN /\ ~running'
      /\ stage \in LaterStages /\ stage' \in LaterStages \ {"planning"} /\ stage' # "allocated"
  <2>1. executed' = 0 /\ running' = FALSE
    BY <1>1, <1>3
  <2>2. running' \in BOOLEAN /\ ~running'
    BY <2>1
  <2>3. executed' \in 0..N
    BY <2>1, <1>3
  <2> QED BY <2>2, <2>3, <1>1 DEF LaterStages
<1> QED BY <1>1, <1>2, <1>4, <1>5, KeptInd

\* One buffer is laid out at the end of its arena.
LEMMA AssignInd ==
  ASSUME PlannerInd, assign_arena
  PROVE  PlannerInd'
<1>1. /\ DOMAIN buffers = 1..Len(buffers) /\ Len(buffers) \in Nat
      /\ \A b \in DOMAIN buffers : buffers[b].bytes \in Nat /\ buffers[b].pool \in Pools
  BY BuffersType DEF PlannerInd
<1>2. /\ LaidOut /\ ArenaDisjoint /\ offset \in Seq(Nat) /\ Len(offset) \in Nat /\ Len(offset) <= Len(buffers)
      /\ DOMAIN offset = 1..Len(offset) /\ \A c \in DOMAIN offset : offset[c] \in Nat
      /\ arena_end \in [Pools -> Int]
  BY DEF PlannerInd, PlanInv, LaidOut
<1>3. PICK b \in Nat : b = Len(offset) + 1
  BY <1>2
<1>4. PICK p : p = buffers[b].pool
  OBVIOUS
<1>5. PICK at : at = IF arena_end[p] < 0 THEN 0 ELSE align_up(arena_end[p], Alignment)
  OBVIOUS
<1>6. /\ stage = "layout" /\ stage' = "layout" /\ b <= Len(buffers)
      /\ offset' = Append(offset, at)
      /\ arena_end' = [arena_end EXCEPT ![p] = at + buffers[b].bytes]
      /\ UNCHANGED <<inputs, in_degree, queue, cur, scan, order, value, unplaced, buffers, live, buffer_id>>
      /\ UNCHANGED <<executed, running, bytes_of>>
  BY <1>3, <1>4, <1>5 DEF assign_arena, graphVars, planVars
<1>7. b \in DOMAIN buffers /\ p \in Pools /\ buffers[b].bytes \in Nat /\ arena_end[p] \in Int
  BY <1>1, <1>2, <1>3, <1>4, <1>6
<1>8. at \in Nat /\ (arena_end[p] >= 0 => arena_end[p] <= at)
  <2>1. CASE arena_end[p] < 0
    BY <2>1, <1>5, <1>7
  <2>2. CASE arena_end[p] >= 0
    <3>1. arena_end[p] \in Nat /\ at = align_up(arena_end[p], Alignment)
      BY <2>2, <1>5, <1>7
    <3> QED BY <3>1, AlignUp
  <2> QED BY <2>1, <2>2, <1>7
<1>9. /\ offset' \in Seq(Nat) /\ Len(offset') = b /\ DOMAIN offset' = DOMAIN offset \cup {b}
      /\ b \notin DOMAIN offset /\ offset'[b] = at
      /\ \A c \in DOMAIN offset : offset'[c] = offset[c]
  BY <1>2, <1>3, <1>6, <1>8
<1>10. \A c \in DOMAIN offset : c < b /\ c \in DOMAIN buffers /\ buffers[c].bytes \in Nat
  BY <1>1, <1>2, <1>3
<1>11. \A c \in DOMAIN offset : buffers[c].pool = p => offset[c] + buffers[c].bytes <= at
  <2> SUFFICES ASSUME NEW c \in DOMAIN offset, buffers[c].pool = p
               PROVE  offset[c] + buffers[c].bytes <= at
    OBVIOUS
  <2>1. offset[c] + buffers[c].bytes <= arena_end[p] /\ offset[c] \in Nat /\ buffers[c].bytes \in Nat
    BY <1>2, <1>10 DEF LaidOut
  <2> QED BY <2>1, <1>7, <1>8
<1>12. ArenaDisjoint'
  <2> SUFFICES ASSUME NEW c \in DOMAIN offset', NEW d \in DOMAIN offset', c < d,
                      buffers[c].pool = buffers[d].pool
               PROVE  offset'[c] + buffers[c].bytes <= offset'[d]
    BY <1>6 DEF ArenaDisjoint
  <2>1. CASE d = b
    <3>1. c \in DOMAIN offset
      BY <2>1, <1>3, <1>9
    <3> QED BY <3>1, <2>1, <1>4, <1>9, <1>11
  <2>2. CASE d # b
    <3>1. d \in DOMAIN offset /\ d < b /\ c \in Nat /\ d \in Nat
      BY <2>2, <1>2, <1>9, <1>10
    <3>2. c \in DOMAIN offset
      BY <3>1, <1>9
    <3> QED BY <3>1, <3>2, <1>2, <1>9 DEF ArenaDisjoint
  <2> QED BY <2>1, <2>2
<1>13. LaidOut'
  <2>1. arena_end' \in [Pools -> Int] /\ arena_end'[p] = at + buffers[b].bytes
        /\ \A q \in Pools : q # p => arena_end'[q] = arena_end[q]
    BY <1>2, <1>6, <1>7, <1>8
  <2>2. ASSUME NEW c \in DOMAIN offset' PROVE offset'[c] + buffers[c].bytes <= arena_end'[buffers[c].pool]
    <3>1. CASE c = b
      BY <3>1, <2>1, <1>4, <1>7, <1>8, <1>9
    <3>2. CASE c # b /\ buffers[c].pool = p
      <4>1. c \in DOMAIN offset /\ offset[c] + buffers[c].bytes <= at
        BY <3>2, <1>9, <1>11
      <4>2. PICK k \in Nat, m \in Nat, n \in Nat : k = offset[c] /\ m = buffers[c].bytes /\ n = buffers[b].bytes
        BY <4>1, <1>2, <1>7, <1>10
      <4>3. offset'[c] = k /\ arena_end'[buffers[c].pool] = at + n /\ k + m <= at
        BY <4>1, <4>2, <3>2, <2>1, <1>9
      <4>4. k + m <= at + n
        BY <4>3, <1>8
      <4> QED BY <4>2, <4>3, <4>4
    <3>3. CASE c # b /\ buffers[c].pool # p
      <4>1. c \in DOMAIN offset /\ buffers[c].pool \in Pools
        BY <3>3, <1>1, <1>9, <1>10
      <4> QED BY <4>1, <3>3, <2>1, <1>2, <1>9 DEF LaidOut
    <3> QED BY <3>1, <3>2, <3>3
  <2> QED BY <2>1, <2>2, <1>6, <1>9 DEF LaidOut
<1>14. executed = 0 /\ running = FALSE /\ N \in Nat
  BY <1>6, GraphAssumption DEF PlannerInd, NoRun
<1>15. LiveValuesIntact' /\ NoRun'
  BY <1>6, <1>14 DEF LiveValuesIntact, NoRun
<1>16. /\ executed' \in 0..N /\ running' \in BOOLEAN /\ ~running'
       /\ stage \in LaterStages /\ stage' \in LaterStages \ {"planning"} /\ stage' # "allocated"
  <2>1. executed' = 0 /\ running' = FALSE
    BY <1>6, <1>14
  <2>2. running' \in BOOLEAN /\ ~running'
    BY <2>1
  <2>3. executed' \in 0..N
    BY <2>1, <1>14
  <2> QED BY <2>2, <2>3, <1>6 DEF LaterStages
<1> QED BY <1>6, <1>12, <1>13, <1>15, <1>16, KeptInd
\* The arenas are allocated.
LEMMA AllocateInd ==
  ASSUME PlannerInd, allocate
  PROVE  PlannerInd'
<1>1. /\ stage = "layout" /\ stage' \in {"unallocated", "allocated"} /\ Len(offset) = Len(buffers)
      /\ bytes_of' = [p \in Pools |-> [c \in 0..(arena_bytes(p) - 1) |-> 0]]
      /\ UNCHANGED <<inputs, in_degree, queue, cur, scan, order, value, unplaced, buffers, live, buffer_id>>
      /\ UNCHANGED <<offset, arena_end, executed, running>>
  BY DEF allocate, planVars
<1>2. ArenaDisjoint' /\ LaidOut'
  BY <1>1, ArenasKept
<1>3. executed = 0 /\ running = FALSE /\ N \in Nat /\ SortInd /\ stage \in Sorted
  BY <1>1, GraphAssumption DEF PlannerInd, NoRun, Sorted, LaterStages
<1>4. \A p \in Pools : arena_bytes(p)' = arena_bytes(p)
  BY <1>1 DEF arena_bytes
<1>5. Arenas'
  BY <1>1, <1>4 DEF Arenas
<1>6. \A v \in Nodes : ~Needed(v)'
  <2> TAKE v \in Nodes
  <2>1. position(v)' = position(v) /\ position(v) \in 1..N
    BY <1>1, <1>3, SameLifetimes, Positions
  <2> QED BY <2>1, <1>1, <1>3 DEF Needed
<1>7. LiveValuesIntact'
  BY <1>6 DEF LiveValuesIntact
<1>8. /\ executed' \in 0..N /\ running' \in BOOLEAN /\ ~running' /\ NoRun'
      /\ stage \in LaterStages /\ stage' \in LaterStages \ {"planning"}
      /\ Len(offset') = Len(buffers')
  <2>1. executed' = 0 /\ running' = FALSE
    BY <1>1, <1>3
  <2>2. running' \in BOOLEAN /\ ~running' /\ NoRun'
    BY <2>1 DEF NoRun
  <2>3. executed' \in 0..N
    BY <2>1, <1>3
  <2> QED BY <2>2, <2>3, <1>1 DEF LaterStages
<1> QED BY <1>1, <1>2, <1>5, <1>7, <1>8, KeptInd

-----------------------------------------------------------------------------
(* The run. *)

\* The arenas of a run hold all of every buffer.
LEMMA ArenaHolds ==
  ASSUME PlannerInd, stage = "allocated", NEW b \in DOMAIN buffers
  PROVE  /\ buffers[b].pool \in Pools /\ buffers[b].bytes \in Nat /\ offset[b] \in Nat
         /\ arena_bytes(buffers[b].pool) \in Nat
         /\ offset[b] + buffers[b].bytes <= arena_bytes(buffers[b].pool)
<1>1. /\ DOMAIN buffers = 1..Len(buffers) /\ Len(buffers) \in Nat
      /\ \A c \in DOMAIN buffers : buffers[c].bytes \in Nat /\ buffers[c].pool \in Pools
  BY BuffersType DEF PlannerInd
<1>2. offset \in Seq(Nat) /\ Len(offset) = Len(buffers) /\ LaidOut /\ arena_end \in [Pools -> Int]
  BY DEF PlannerInd, LaidOut
<1>3. DOMAIN offset = DOMAIN buffers /\ \A c \in DOMAIN buffers : offset[c] \in Nat
  BY <1>1, <1>2
<1>4. PICK p \in Pools : p = buffers[b].pool
  BY <1>1
<1> DEFINE B == {c \in DOMAIN buffers : buffers[c].pool = p}
           S == {0} \cup {offset[c] + buffers[c].bytes : c \in B}
<1>5. PICK e \in Nat : e = IF arena_end[p] < 0 THEN 0 ELSE arena_end[p]
  BY <1>2
<1>6. \A c \in B : offset[c] + buffers[c].bytes \in 0..e
  <2> TAKE c \in B
  <2>1. offset[c] + buffers[c].bytes <= arena_end[p] /\ offset[c] \in Nat /\ buffers[c].bytes \in Nat
    BY <1>1, <1>2, <1>3 DEF LaidOut
  <2> QED BY <2>1, <1>2, <1>5
<1>7. b \in B /\ S \in SUBSET (0..e) /\ S # {} /\ \A c \in B : offset[c] + buffers[c].bytes \in S
  BY <1>4, <1>5, <1>6
<1>8. arena_bytes(p) = Max(S)
  BY DEF arena_bytes
<1> HIDE DEF S, B
<1>9. Max(S) \in 0..e /\ \A x \in S : x <= Max(S)
  BY <1>5, <1>7, GreatestElement
<1> QED BY <1>1, <1>3, <1>4, <1>7, <1>8, <1>9

\* The bytes of a value, if it has any in an arena, lie in its buffer, and
\* that in an arena of its pool.
LEMMA ExtentInArena ==
  ASSUME PlannerInd, stage = "allocated", NEW v \in Nodes, NEW c \in Extent(v)
  PROVE  /\ buffer_id[v] \in DOMAIN buffers /\ c \in Nat
         /\ buffers[buffer_id[v]].pool = value[v].pool
         /\ offset[buffer_id[v]] <= c
         /\ c < offset[buffer_id[v]] + buffers[buffer_id[v]].bytes
         /\ value[v].pool \in Pools
         /\ c \in DOMAIN bytes_of[value[v].pool]
<1>1. PICK b : b = buffer_id[v]
  OBVIOUS
<1>2. /\ DOMAIN buffers = 1..Len(buffers) /\ Len(buffers) \in Nat
  BY BuffersType DEF PlannerInd
<1>3. PlannerTypeOK /\ ReuseIsSafe /\ Arenas
  BY DEF PlannerInd, PlanInv
<1>4. b # 0 /\ c \in offset[b]..(offset[b] + value[v].bytes - 1)
  BY <1>1 DEF Extent
<1>5. b \in DOMAIN buffers
  BY <1>1, <1>2, <1>3, <1>4 DEF PlannerTypeOK
<1>6. buffers[b].pool = value[v].pool /\ value[v].bytes <= buffers[b].bytes /\ value[v].bytes \in Nat
  BY <1>1, <1>3, <1>4, SpecsType DEF ReuseIsSafe
<1>7. PICK p \in Pools : p = value[v].pool /\ p = buffers[b].pool
  BY <1>3, <1>6, SpecsType
<1>8. PICK a \in Nat : /\ a = arena_bytes(p) /\ offset[b] + buffers[b].bytes <= a
                       /\ offset[b] \in Nat /\ buffers[b].bytes \in Nat
  BY <1>5, <1>7, ArenaHolds
<1>9. c \in Nat /\ offset[b] <= c /\ c < offset[b] + buffers[b].bytes /\ c \in 0..(a - 1)
  BY <1>4, <1>6, <1>8
<1>10. DOMAIN bytes_of[p] = 0..(arena_bytes(p) - 1)
  BY <1>3 DEF Arenas
<1> QED BY <1>1, <1>5, <1>6, <1>7, <1>8, <1>9, <1>10

\* Values of which one is needed while the other is written have no byte in
\* common.
LEMMA ExtentsApart ==
  ASSUME PlannerInd, stage = "allocated", NEW u \in Nodes, NEW v \in Nodes, u # v,
         ~(last_node(u) < first_node(v)), ~(last_node(v) < first_node(u)),
         value[u].pool = value[v].pool
  PROVE  Extent(u) \cap Extent(v) = {}
<1> SUFFICES ASSUME NEW c \in Extent(u), c \in Extent(v) PROVE FALSE
  OBVIOUS
<1>1. PICK a, b : a = buffer_id[u] /\ b = buffer_id[v]
  OBVIOUS
<1>2. /\ a \in DOMAIN buffers /\ buffers[a].pool = value[u].pool /\ c \in Nat
      /\ offset[a] <= c /\ c < offset[a] + buffers[a].bytes
  BY <1>1, ExtentInArena
<1>3. /\ b \in DOMAIN buffers /\ buffers[b].pool = value[v].pool
      /\ offset[b] <= c /\ c < offset[b] + buffers[b].bytes
  BY <1>1, ExtentInArena
<1>4. /\ offset[a] \in Nat /\ offset[b] \in Nat /\ buffers[a].bytes \in Nat /\ buffers[b].bytes \in Nat
  BY <1>2, <1>3, ArenaHolds
<1>5. DOMAIN buffers = 1..Len(buffers) /\ Len(buffers) \in Nat
  BY BuffersType DEF PlannerInd
<1>6. DOMAIN offset = DOMAIN buffers /\ ArenaDisjoint /\ ReuseIsSafe
  <2>1. offset \in Seq(Nat) /\ Len(offset) = Len(buffers)
    BY DEF PlannerInd, LaidOut
  <2> QED BY <2>1, <1>5 DEF PlannerInd, PlanInv
<1>7. a # 0 /\ b # 0 /\ a \in Nat /\ b \in Nat
  BY <1>2, <1>3, <1>5
<1>8. a # b
  BY <1>1, <1>6, <1>7 DEF ReuseIsSafe
<1>9. a < b \/ b < a
  BY <1>7, <1>8
<1>10. \/ offset[a] + buffers[a].bytes <= offset[b]
       \/ offset[b] + buffers[b].bytes <= offset[a]
  BY <1>2, <1>3, <1>6, <1>9 DEF ArenaDisjoint
<1> QED BY <1>2, <1>3, <1>4, <1>10
\* A kernel writes its value: no value that is needed loses a byte, and all
\* bytes of its own now hold it.
LEMMA KernelStartInd ==
  ASSUME PlannerInd, kernel_start
  PROVE  PlannerInd'
<1>1. PICK n : n = order[executed + 1]
  OBVIOUS
<1>2. /\ stage = "allocated" /\ ~running /\ executed < N /\ running' = TRUE
      /\ bytes_of' = [bytes_of EXCEPT ![value[n].pool] =
                        [c \in DOMAIN @ |-> IF c \in Extent(n) THEN n ELSE @[c]]]
      /\ UNCHANGED <<inputs, stage, in_degree, queue, cur, scan, order>>
      /\ UNCHANGED <<value, unplaced, buffers, live, buffer_id, offset, arena_end, executed>>
  BY <1>1 DEF kernel_start, graphVars, planVars
<1>3. /\ SortInd /\ stage \in Sorted /\ PlannerTypeOK /\ Arenas /\ LiveValuesIntact
      /\ N \in Nat /\ executed \in Nat /\ Len(offset) = Len(buffers)
  BY <1>2, GraphAssumption DEF PlannerInd, PlanInv, PlannerTypeOK, Sorted, LaterStages
<1>4. n \in Nodes /\ position(n) = executed + 1 /\ order[position(n)] = n
  BY <1>1, <1>2, <1>3, Positions
<1>5. PICK p \in Pools : p = value[n].pool
  BY <1>3, <1>4, SpecsType
<1>6. bytes_of = [q \in Pools |-> [c \in 0..(arena_bytes(q) - 1) |-> bytes_of[q][c]]]
  BY <1>3 DEF Arenas
<1>7. /\ bytes_of'[p] = [c \in DOMAIN bytes_of[p] |-> IF c \in Extent(n) THEN n ELSE bytes_of[p][c]]
      /\ \A q \in Pools : q # p => bytes_of'[q] = bytes_of[q]
  BY <1>2, <1>5, <1>6
<1>8. Arenas'
  <2>1. \A q \in Pools : arena_bytes(q)' = arena_bytes(q)
    BY <1>2 DEF arena_bytes
  <2>2. \A q \in Pools : bytes_of[q] = [c \in 0..(arena_bytes(q) - 1) |-> bytes_of[q][c]]
    BY <1>6
  <2>3. \A q \in Pools : bytes_of'[q] = [c \in 0..(arena_bytes(q) - 1) |-> bytes_of'[q][c]]
    BY <2>2, <1>7
  <2>4. bytes_of' = [q \in Pools |-> bytes_of'[q]]
    BY <1>2, <1>6
  <2> QED BY <2>1, <2>3, <2>4 DEF Arenas
<1>9. LiveValuesIntact'
  <2> SUFFICES ASSUME NEW v \in Nodes, Needed(v)', NEW c \in Extent(v)
               PROVE  bytes_of'[value[v].pool][c] = v
    BY <1>2 DEF LiveValuesIntact, Extent
  <2>1. /\ c \in DOMAIN bytes_of[value[v].pool] /\ value[v].pool \in Pools
    BY <1>2, ExtentInArena
  <2>2. CASE v = n
    BY <2>1, <2>2, <1>5, <1>7
  <2>3. CASE v # n
    <3>1. /\ position(v) <= executed + 1
          /\ value[v].kind = "Output" \/ \E m \in consumers(v) : position(m) > executed
      <4>1. /\ position(v)' = position(v) /\ consumers(v)' = consumers(v) /\ consumers(v) \subseteq Nodes
            /\ \A m \in Nodes : position(m)' = position(m)
        BY <1>2, SameLifetimes DEF consumers
      <4> QED BY <4>1, <1>2 DEF Needed
    <3>2. position(v) <= executed /\ position(v) \in Nat
      <4>1. position(v) \in 1..N /\ order[position(v)] = v
        BY <1>3, Positions
      <4>2. position(v) # executed + 1
        BY <4>1, <2>3, <1>1
      <4> QED BY <4>1, <4>2, <3>1, <1>3
    <3>3. Needed(v)
      BY <3>1, <3>2, <1>2, <1>3 DEF Needed
    <3>4. bytes_of[value[v].pool][c] = v
      BY <3>3, <1>2, <1>3 DEF LiveValuesIntact
    <3>5. CASE value[v].pool # p
      BY <3>4, <3>5, <2>1, <1>7
    <3>6. CASE value[v].pool = p
      <4>1. /\ first_node(v) = position(v) /\ last_node(v) \in 1..N
            /\ \A m \in consumers(v) : m \in Nodes /\ position(m) <= last_node(v)
            /\ value[v].kind = "Output" => last_node(v) = N
        BY <1>3, Lifetime
      <4>2. first_node(n) = executed + 1 /\ executed + 1 <= last_node(n) /\ last_node(n) \in 1..N
        BY <1>3, <1>4, Lifetime
      <4>3. last_node(v) >= executed + 1
        <5>1. CASE value[v].kind = "Output"
          BY <5>1, <4>1, <1>2, <1>3
        <5>2. CASE \E m \in consumers(v) : position(m) > executed
          <6>1. PICK m \in consumers(v) : position(m) > executed
            BY <5>2
          <6>2. position(m) \in 1..N /\ position(m) <= last_node(v)
            BY <4>1, <1>3, Positions
          <6> QED BY <6>1, <6>2, <4>1, <1>3
        <5> QED BY <5>1, <5>2, <3>1
      <4>4. ~(last_node(v) < first_node(n)) /\ ~(last_node(n) < first_node(v))
        BY <4>1, <4>2, <4>3, <3>2, <1>3
      <4>5. c \notin Extent(n)
        BY <4>4, <3>6, <2>3, <1>2, <1>4, <1>5, ExtentsApart
      <4> QED BY <4>5, <3>4, <3>6, <2>1, <1>7
    <3> QED BY <3>5, <3>6
  <2> QED BY <2>2, <2>3
<1>10. ArenaDisjoint' /\ LaidOut'
  BY <1>2, ArenasKept
<1>11. executed' \in 0..N /\ executed' < N /\ stage' = "allocated" /\ Len(offset') = Len(buffers')
       /\ stage \in LaterStages /\ stage' \in LaterStages \ {"planning"}
  BY <1>2, <1>3 DEF LaterStages
<1>12. running' \in BOOLEAN
  BY <1>2
<1> QED BY <1>2, <1>8, <1>9, <1>10, <1>11, <1>12, KeptInd

\* A kernel ends: what is needed after it was needed before.
LEMMA KernelEndInd ==
  ASSUME PlannerInd, kernel_end
  PROVE  PlannerInd'
<1>1. /\ running /\ running' = FALSE /\ executed' = executed + 1
      /\ UNCHANGED <<inputs, stage, in_degree, queue, cur, scan, order>>
      /\ UNCHANGED <<value, unplaced, buffers, live, buffer_id, offset, arena_end, bytes_of>>
  BY DEF kernel_end, graphVars, planVars
<1>2. /\ stage = "allocated" /\ executed < N /\ SortInd /\ stage \in Sorted /\ PlannerTypeOK
      /\ Arenas /\ LiveValuesIntact
      /\ N \in Nat /\ executed \in Nat /\ Len(offset) = Len(buffers)
  BY <1>1, GraphAssumption DEF PlannerInd, PlanInv, PlannerTypeOK, Sorted, LaterStages
<1>3. Arenas'
  <2>1. \A q \in Pools : arena_bytes(q)' = arena_bytes(q)
    BY <1>1 DEF arena_bytes
  <2> QED BY <2>1, <1>1, <1>2 DEF Arenas
<1>4. LiveValuesIntact'
  <2> SUFFICES ASSUME NEW v \in Nodes, Needed(v)', NEW c \in Extent(v)
               PROVE  bytes_of[value[v].pool][c] = v
    BY <1>1 DEF LiveValuesIntact, Extent
  <2>1. /\ position(v)' = position(v) /\ consumers(v)' = consumers(v) /\ consumers(v) \subseteq Nodes
        /\ \A m \in Nodes : position(m)' = position(m)
    BY <1>1, SameLifetimes DEF consumers
  <2>2. \A m \in Nodes : position(m) \in 1..N
    BY <1>2, Positions
  <2>3. position(v) <= executed + 1
    BY <2>1, <2>2, <1>1, <1>2 DEF Needed
  <2>4. value[v].kind = "Output" \/ \E m \in consumers(v) : position(m) > executed
    <3>1. value[v].kind = "Output" \/ \E m \in consumers(v) : position(m) > executed + 1
      BY <2>1, <1>1 DEF Needed
    <3> QED BY <3>1, <2>1, <2>2, <1>2
  <2>5. Needed(v)
    BY <2>3, <2>4, <1>1 DEF Needed
  <2> QED BY <2>5, <1>2 DEF LiveValuesIntact
<1>5. ArenaDisjoint' /\ LaidOut'
  BY <1>1, ArenasKept
<1>6. executed' \in 0..N /\ stage' = "allocated" /\ Len(offset') = Len(buffers')
      /\ stage \in LaterStages /\ stage' \in LaterStages \ {"planning"}
  BY <1>1, <1>2 DEF LaterStages
<1>7. running' \in BOOLEAN
  BY <1>1
<1> QED BY <1>1, <1>3, <1>4, <1>5, <1>6, <1>7, KeptInd

\* A kernel reports an error.
LEMMA KernelFailsInd ==
  ASSUME PlannerInd, kernel_fails
  PROVE  PlannerInd'
<1>1. /\ running /\ running' = FALSE /\ stage' = "failed" /\ executed' = executed
      /\ UNCHANGED <<inputs, in_degree, queue, cur, scan, order>>
      /\ UNCHANGED <<value, unplaced, buffers, live, buffer_id, offset, arena_end, bytes_of>>
  BY DEF kernel_fails, planVars
<1>2. stage = "allocated" /\ PlannerTypeOK
  BY <1>1 DEF PlannerInd, PlanInv
<1>3. ArenaDisjoint' /\ LaidOut'
  BY <1>1, ArenasKept
<1>4. executed' \in 0..N /\ stage \in LaterStages /\ stage' \in LaterStages \ {"planning"}
  BY <1>1, <1>2 DEF PlannerTypeOK, LaterStages
<1>5. LiveValuesIntact'
  BY <1>1 DEF LiveValuesIntact
<1>6. running' \in BOOLEAN
  BY <1>1
<1> QED BY <1>1, <1>3, <1>4, <1>5, <1>6, KeptInd

\* Nothing happens.
LEMMA PlannerStutterInd ==
  ASSUME PlannerInd, UNCHANGED allVars
  PROVE  PlannerInd'
<1>1. /\ UNCHANGED <<inputs, stage, in_degree, queue, cur, scan, order>>
      /\ UNCHANGED <<value, unplaced, buffers, live, buffer_id>>
      /\ UNCHANGED <<offset, arena_end, executed, running, bytes_of>>
  BY DEF allVars, graphVars, planVars, runVars
<1>2. SortInd'
  BY <1>1, SortNextInd DEF graphVars, PlannerInd
<1>3. ReuseIsSafe' /\ UseCovered' /\ buffers' \in Seq([bytes : Nat, pool : Pools, last_use : Nodes])
  BY <1>1, PlanKept
<1>4. ArenaDisjoint' /\ LaidOut'
  BY <1>1, ArenasKept
<1>5. PlannerTypeOK'
  BY <1>1 DEF PlannerInd, PlanInv, PlannerTypeOK
<1>6. /\ \A v \in Nodes : /\ position(v)' = position(v) /\ first_node(v)' = first_node(v)
                          /\ consumers(v)' = consumers(v) /\ consumers(v) \subseteq Nodes
      /\ \A p \in Pools : arena_bytes(p)' = arena_bytes(p)
  BY <1>1, SameLifetimes DEF consumers, arena_bytes
<1>7. (PlacedInOrder => PlacedInOrder') /\ (Arenas => Arenas') /\ (NoPlan => NoPlan') /\ (NoRun => NoRun')
  <2>1. PlacedInOrder => PlacedInOrder'
    <3>1. unplaced \subseteq Nodes
      BY DEF PlannerInd, PlanInv, PlannerTypeOK
    <3> QED BY <3>1, <1>1, <1>6 DEF PlacedInOrder
  <2> QED BY <2>1, <1>1, <1>6 DEF Arenas, NoPlan, NoRun
<1>8. LiveValuesIntact'
  <2> SUFFICES ASSUME stage = "allocated", NEW v \in Nodes, Needed(v)', NEW c \in Extent(v)
               PROVE  bytes_of[value[v].pool][c] = v
    BY <1>1 DEF LiveValuesIntact, Extent
  <2>1. Needed(v)
    BY <1>1, <1>6 DEF Needed
  <2> QED BY <2>1 DEF PlannerInd, LiveValuesIntact
<1>9. /\ running \in BOOLEAN /\ (running => stage = "allocated" /\ executed < N)
      /\ (stage \notin LaterStages => NoPlan /\ offset = <<>>)
      /\ (stage \notin {"allocated", "failed"} => NoRun)
      /\ (stage = "planning" => PlacedInOrder /\ offset = <<>>)
      /\ (stage = "allocated" => Len(offset) = Len(buffers) /\ Arenas)
  BY DEF PlannerInd
<1>10. /\ running' \in BOOLEAN /\ (running' => stage' = "allocated" /\ executed' < N)
       /\ (stage' \notin LaterStages => NoPlan' /\ offset' = <<>>)
       /\ (stage' \notin {"allocated", "failed"} => NoRun')
       /\ (stage' = "planning" => PlacedInOrder' /\ offset' = <<>>)
       /\ (stage' = "allocated" => Len(offset') = Len(buffers') /\ Arenas')
  BY <1>1, <1>7, <1>9 DEF LaterStages
<1> QED BY <1>2, <1>3, <1>4, <1>5, <1>8, <1>10 DEF PlannerInd, PlanInv

-----------------------------------------------------------------------------
(* The theorems. *)

\* Every step of the planner and of a run keeps the invariant.
LEMMA PlannerNextInd == ASSUME PlannerInd, [PlannerNext]_allVars PROVE PlannerInd'
<1>1. CASE topological_sort /\ UNCHANGED <<planVars, runVars>>
  BY <1>1, SortStepInd
<1>2. CASE plan_begin
  BY <1>2, PlanBeginInd
<1>3. ASSUME NEW v \in Nodes, place(v) PROVE PlannerInd'
  BY <1>3, PlaceInd
<1>4. CASE plan_end
  BY <1>4, PlanEndInd
<1>5. CASE assign_arena
  BY <1>5, AssignInd
<1>6. CASE allocate
  BY <1>6, AllocateInd
<1>7. CASE kernel_start
  BY <1>7, KernelStartInd
<1>8. CASE kernel_end
  BY <1>8, KernelEndInd
<1>9. CASE kernel_fails
  BY <1>9, KernelFailsInd
<1>10. CASE UNCHANGED allVars
  BY <1>10, PlannerStutterInd
<1> QED BY <1>1, <1>2, <1>3, <1>4, <1>5, <1>6, <1>7, <1>8, <1>9, <1>10 DEF PlannerNext

\* The inductive invariant holds from the building of a graph to the end of
\* a run.
THEOREM PlannerInvariant == PlannerSpec => []PlannerInd
<1>1. PlannerInit => PlannerInd
  BY PlannerInitInd
<1>2. PlannerInd /\ [PlannerNext]_allVars => PlannerInd'
  BY PlannerNextInd
<1> QED BY <1>1, <1>2, PTL DEF PlannerSpec

\* Values that share a buffer are never needed together, each fits into its
\* buffer, and the buffers of an arena do not overlap (MemoryPlanner::plan,
\* RuntimeContext::allocate_intermediates_with_plan).
THEOREM PlannerReuseSafe == PlannerSpec => []PlanInv
<1>1. PlannerInd => PlanInv
  BY DEF PlannerInd
<1> QED BY <1>1, PlannerInvariant, PTL

\* From the start of the kernel that produces a value to the end of the last
\* kernel that reads it, and to the end of the run for an output, its bytes
\* hold that value (CpuExecutor::run on the planned arenas).
THEOREM PlannerLiveValues == PlannerSpec => []LiveValuesIntact
<1>1. PlannerInd => LiveValuesIntact
  BY DEF PlannerInd
<1> QED BY <1>1, PlannerInvariant, PTL

\* The sort does what GraphSorted says under the planner, too.
THEOREM PlannerSorts == PlannerSpec => []SortInv
<1>1. PlannerInd => SortInv
  BY DEF PlannerInd, SortInd
<1> QED BY <1>1, PlannerInvariant, PTL
=============================================================================
