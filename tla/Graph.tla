------------------------------- MODULE Graph --------------------------------
(***************************************************************************)
(* The computation graph (src/graph/graph.cpp): validate and               *)
(* topological_sort, Kahn's algorithm with a first-in first-out queue.     *)
(*                                                                         *)
(* Every operator of GraphBuilder adds one node with one new value as its  *)
(* output, so the value that node n produces is called n as well.  Values  *)
(* without a producer (graph inputs and weights) add no edge and are left  *)
(* out of the input lists.  A list is of any length and may name a value   *)
(* twice, as mul(x, x) does; attention names the producers of q, k and v.  *)
(***************************************************************************)
EXTENDS Integers, Sequences, FiniteSets

CONSTANTS N,           \* number of nodes
          Ids,         \* value ids that input lists name, existing or not
          InputLists   \* bound for TLC: the input lists that a node may have

Nodes == 1..N

ASSUME GraphAssumption == /\ N \in Nat
                          /\ Nodes \subseteq Ids
                          /\ Ids \subseteq Nat
                          /\ InputLists \subseteq Seq(Ids)

\* What the caller goes on to do with a sorted graph (MemoryPlanner).
LaterStages == {"planning", "layout", "unallocated", "allocated", "failed"}

VARIABLES inputs,      \* inputs[n]: the input values of node n
          stage,       \* how far the caller has got
          in_degree,   \* in_degree
          queue,       \* q
          cur,         \* the node whose edges are being counted down
          scan,        \* the last node that the inner loop has visited
          order        \* order

graphVars == <<inputs, stage, in_degree, queue, cur, scan, order>>

\* The graph as the caller built it with add_value and add_node.
GraphInit == /\ inputs \in [Nodes -> InputLists]
             /\ stage = "built"
             /\ in_degree = [n \in Nodes |-> 0]
             /\ queue = <<>>
             /\ cur = 0
             /\ scan = 0
             /\ order = <<>>

-----------------------------------------------------------------------------
\* validate returns ok.
validate == \A n \in Nodes : \A i \in DOMAIN inputs[n] : inputs[n][i] \in Nodes

\* How often node m occurs in adj[n].
edges(n, m) == Cardinality({i \in DOMAIN inputs[m] : inputs[m][i] = n})

sort_invalid == /\ stage = "built" /\ ~validate
                /\ stage' = "invalid"
                /\ UNCHANGED <<inputs, in_degree, queue, cur, scan, order>>

\* The edges are counted.
sort_begin == /\ stage = "built" /\ validate
              /\ stage' = "filling"
              /\ in_degree' = [n \in Nodes |-> Len(inputs[n])]
              /\ UNCHANGED <<inputs, queue, cur, scan, order>>

\* The next node is queued when it waits for nothing.
sort_fill ==
    LET n == scan + 1
    IN /\ stage = "filling" /\ scan < N
       /\ queue' = IF in_degree[n] = 0 THEN Append(queue, n) ELSE queue
       /\ scan' = n
       /\ UNCHANGED <<inputs, stage, in_degree, cur, order>>

sort_filled == /\ stage = "filling" /\ scan = N
               /\ stage' = "sorting"
               /\ UNCHANGED <<inputs, in_degree, queue, cur, scan, order>>

\* The front of the queue is output.
sort_pop == /\ stage = "sorting" /\ scan = N /\ queue # <<>>
            /\ cur' = Head(queue)
            /\ queue' = Tail(queue)
            /\ order' = Append(order, Head(queue))
            /\ scan' = 0
            /\ UNCHANGED <<inputs, stage, in_degree>>

\* Mutant: a successor is queued when its first producer is done.
sort_relax_eager ==
    LET n == scan + 1
    IN /\ stage = "sorting" /\ scan < N
       /\ in_degree' = [in_degree EXCEPT ![n] = IF edges(cur, n) > 0 THEN 0 ELSE @]
       /\ queue' = IF edges(cur, n) > 0 /\ in_degree[n] > 0 THEN Append(queue, n) ELSE queue
       /\ scan' = n
       /\ UNCHANGED <<inputs, stage, cur, order>>

\* The edges from cur to the next node are counted down; adj[cur] lists the
\* nodes in increasing order.
sort_relax ==
    LET n == scan + 1
        d == in_degree[n] - edges(cur, n)
    IN /\ stage = "sorting" /\ scan < N
       /\ in_degree' = [in_degree EXCEPT ![n] = d]
       /\ queue' = IF edges(cur, n) > 0 /\ d = 0 THEN Append(queue, n) ELSE queue
       /\ scan' = n
       /\ UNCHANGED <<inputs, stage, cur, order>>

\* "graph has cycles" when a node was never queued.
sort_end == /\ stage = "sorting" /\ scan = N /\ queue = <<>>
            /\ stage' = IF Len(order) = N THEN "sorted" ELSE "cyclic"
            /\ UNCHANGED <<inputs, in_degree, queue, cur, scan, order>>

topological_sort == \/ sort_invalid
                    \/ sort_begin
                    \/ sort_fill
                    \/ sort_filled
                    \/ sort_pop
                    \/ sort_relax
                    \/ sort_end

GraphSpec == GraphInit /\ [][topological_sort]_graphVars

-----------------------------------------------------------------------------
(* Properties. *)

GraphTypeOK == /\ inputs \in [Nodes -> Seq(Ids)]
               /\ stage \in {"built", "invalid", "filling", "sorting", "sorted", "cyclic"}
                            \cup LaterStages
               /\ in_degree \in [Nodes -> Nat]
               /\ queue \in Seq(Nodes)
               /\ cur \in 0..N
               /\ scan \in 0..N
               /\ order \in Seq(Nodes)

\* Node m is output before the i-th output.
OutputBefore(m, i) == \E j \in 1..(i - 1) : order[j] = m

\* At every moment of the sort the nodes output so far are distinct and each
\* comes after the producers of all its inputs, so that executing them in this
\* order never reads a value before it was computed (CpuExecutor::run).
ProducersFirst ==
    /\ \A i, j \in DOMAIN order : order[i] = order[j] => i = j
    /\ \A i \in DOMAIN order : \A k \in DOMAIN inputs[order[i]] :
         OutputBefore(inputs[order[i]][k], i)

\* Some nodes wait for each other: each has an input from one of them.
Cyclic == \E S \in (SUBSET Nodes) \ {{}} :
             \A n \in S : \E k \in DOMAIN inputs[n] : inputs[n][k] \in S

\* topological_sort says "graph has cycles" for exactly the graphs that have
\* one, self-loops included, and otherwise outputs every node.
CyclesReported == /\ stage = "cyclic" => Cyclic
                  /\ stage = "sorted" => ~Cyclic /\ \A n \in Nodes : OutputBefore(n, N + 1)

\* The sort is of its type at every step, runs producers first, and reports
\* exactly the graphs that have a cycle.
SortInv == GraphTypeOK /\ ProducersFirst /\ CyclesReported
=============================================================================
