--------------------------- MODULE MemoryPlanner ----------------------------
(***************************************************************************)
(* The graph memory planner (src/runtime/memory_planner.cpp), the arenas   *)
(* that RuntimeContext::allocate_intermediates_with_plan builds from its   *)
(* plan, and the executor run that uses them: liveness over the            *)
(* topological order, best-fit reuse of buffers, contiguous arenas.        *)
(*                                                                         *)
(* One action per range placed, per buffer laid out, and per start and end *)
(* of a kernel, because a kernel reads its inputs while it writes its      *)
(* output.  A byte of an arena holds the name of the value last written    *)
(* there.  The executor's order is the planner's: both call                *)
(* topological_sort, which is deterministic.                               *)
(***************************************************************************)
EXTENDS Graph, FiniteSetsExt

CONSTANTS Pools,            \* pairs of dtype and device
          ValueSpecs,       \* what values may be: [kind, pool, bytes, dynamic]
          PlainSpecs,       \* bound for TLC: what values may be in a graph that
                            \* GraphBuilder could not have built
          Alignment,        \* options.alignment
          IncludeOutputs    \* options.include_outputs

ASSUME PlannerAssumption ==
    /\ \A s \in ValueSpecs : /\ s.kind \in {"Intermediate", "Output"}
                             /\ s.pool \in Pools
                             /\ s.bytes \in Nat
                             /\ s.dynamic \in BOOLEAN
    /\ PlainSpecs \subseteq ValueSpecs
    /\ Alignment \in Nat \ {0}
    /\ IncludeOutputs \in BOOLEAN

VARIABLES value,       \* value[n]: kind, pool, size of the value that node n produces
          unplaced,    \* eligible ranges that the matching loop has not reached
          buffers,     \* plan.buffers: bytes, pool, last_use
          live,        \* the buffers in live_by_last_use; the others are in a free_set
          buffer_id,   \* range.buffer_id, 0 for none
          offset,      \* offset of each buffer laid out so far
          arena_end,   \* arena_info: current offset of a pool's arena, -1 for no arena
          executed,    \* number of nodes the run has executed
          running,     \* a kernel is running
          bytes_of     \* bytes_of[p][c]: the value in byte c of pool p's arena

planVars == <<value, unplaced, buffers, live, buffer_id>>
runVars  == <<offset, arena_end, executed, running, bytes_of>>
allVars  == <<graphVars, planVars, runVars>>

-----------------------------------------------------------------------------
(* Live ranges. *)

align_up(n, a) == IF n % a = 0 THEN n ELSE n + (a - (n % a))

position(n) == CHOOSE i \in DOMAIN order : order[i] = n

consumers(v) == {n \in Nodes : \E k \in DOMAIN inputs[n] : inputs[n][k] = v}

first_node(v) == position(v)

\* Mutant: the last use is the first consumer's.
last_node_first_use(v) ==
    IF value[v].kind = "Output" THEN N
    ELSE IF consumers(v) = {} THEN position(v) ELSE Min({position(n) : n \in consumers(v)})

\* An output is needed until the end of the graph.
last_node(v) == IF value[v].kind = "Output" THEN N
                ELSE Max({position(n) : n \in consumers(v) \cup {v}})

eligible(v) == /\ value[v].kind = "Intermediate" \/ IncludeOutputs
               /\ ~value[v].dynamic

aligned_bytes(v) == align_up(value[v].bytes, Alignment)

\* The comparator of the sort; ranges it does not separate come in any order.
Before(u, v) ==
    \/ first_node(u) < first_node(v)
    \/ /\ first_node(u) = first_node(v)
       /\ \/ last_node(u) < last_node(v)
          \/ last_node(u) = last_node(v) /\ aligned_bytes(u) > aligned_bytes(v)

-----------------------------------------------------------------------------
(* Matching ranges with buffers. *)

plan_begin ==
    /\ stage = "sorted"
    /\ stage' = "planning"
    /\ unplaced' = {v \in Nodes : eligible(v)}
    /\ UNCHANGED <<inputs, in_degree, queue, cur, scan, order, value, buffers, live, buffer_id, runVars>>

\* Mutant: <= for <: a buffer is free at its last use already.
still_live_early(v) == {b \in live : buffers[b].last_use > first_node(v)}

\* The buffers that stay live when range v begins.
still_live(v) == {b \in live : buffers[b].last_use >= first_node(v)}

\* The free buffers of v's pool from lower_bound({aligned_bytes, 0}) on.
fitting(v) == {b \in DOMAIN buffers \ still_live(v) :
                 buffers[b].pool = value[v].pool /\ buffers[b].bytes >= aligned_bytes(v)}

\* The first of them: the smallest, and of these the oldest.
best_fit(v) == CHOOSE b \in fitting(v) :
                 \A c \in fitting(v) :
                    \/ buffers[b].bytes < buffers[c].bytes
                    \/ buffers[b].bytes = buffers[c].bytes /\ b <= c

place(v) ==
    /\ stage = "planning"
    /\ v \in unplaced /\ \A u \in unplaced : ~Before(u, v)
    /\ unplaced' = unplaced \ {v}
    /\ IF fitting(v) # {}
       THEN /\ buffers' = [buffers EXCEPT ![best_fit(v)].last_use = last_node(v)]
            /\ buffer_id' = [buffer_id EXCEPT ![v] = best_fit(v)]
            /\ live' = still_live(v) \cup {best_fit(v)}
       ELSE /\ buffers' = Append(buffers, [bytes |-> aligned_bytes(v), pool |-> value[v].pool,
                                           last_use |-> last_node(v)])
            /\ buffer_id' = [buffer_id EXCEPT ![v] = Len(buffers) + 1]
            /\ live' = still_live(v) \cup {Len(buffers) + 1}
    /\ UNCHANGED <<inputs, stage, in_degree, queue, cur, scan, order, value, runVars>>

plan_end ==
    /\ stage = "planning" /\ unplaced = {}
    /\ stage' = "layout"
    /\ UNCHANGED <<inputs, in_degree, queue, cur, scan, order, planVars, runVars>>

-----------------------------------------------------------------------------
(* Arenas. *)

\* The next buffer starts an arena or goes to the end of its pool's.
assign_arena ==
    LET b  == Len(offset) + 1
        p  == buffers[b].pool
        at == IF arena_end[p] < 0 THEN 0 ELSE align_up(arena_end[p], Alignment)
    IN /\ stage = "layout" /\ b <= Len(buffers)
       /\ offset' = Append(offset, at)
       /\ arena_end' = [arena_end EXCEPT ![p] = at + buffers[b].bytes]
       /\ UNCHANGED <<graphVars, planVars, executed, running, bytes_of>>

\* max(offset + bytes) over the buffers of an arena.
arena_bytes(p) ==
    Max({0} \cup {offset[b] + buffers[b].bytes : b \in {b \in DOMAIN buffers : buffers[b].pool = p}})

\* One block per arena; a value with a dynamic shape cannot be allocated.
allocate ==
    /\ stage = "layout" /\ Len(offset) = Len(buffers)
    /\ stage' = IF \E v \in Nodes : value[v].dynamic THEN "unallocated" ELSE "allocated"
    /\ bytes_of' = [p \in Pools |-> [c \in 0..(arena_bytes(p) - 1) |-> 0]]
    /\ UNCHANGED <<inputs, in_degree, queue, cur, scan, order, planVars, offset, arena_end, executed, running>>

-----------------------------------------------------------------------------
(* CpuExecutor::run. *)

\* The bytes of v's tensor in its arena; a value that was not planned has
\* storage of its own.
Extent(v) == IF buffer_id[v] = 0 THEN {}
             ELSE offset[buffer_id[v]]..(offset[buffer_id[v]] + value[v].bytes - 1)

\* The kernel of the next node begins to write its output.
kernel_start ==
    LET n == order[executed + 1]
    IN /\ stage = "allocated" /\ ~running /\ executed < N
       /\ running' = TRUE
       /\ bytes_of' = [bytes_of EXCEPT ![value[n].pool] =
                          [c \in DOMAIN @ |-> IF c \in Extent(n) THEN n ELSE @[c]]]
       /\ UNCHANGED <<graphVars, planVars, offset, arena_end, executed>>

\* It has read its inputs to the end.
kernel_end ==
    /\ running
    /\ running' = FALSE
    /\ executed' = executed + 1
    /\ UNCHANGED <<graphVars, planVars, offset, arena_end, bytes_of>>

\* It reports an error and run returns.
kernel_fails ==
    /\ running
    /\ running' = FALSE
    /\ stage' = "failed"
    /\ UNCHANGED <<inputs, in_degree, queue, cur, scan, order, planVars,
                   offset, arena_end, executed, bytes_of>>

-----------------------------------------------------------------------------
\* GraphBuilder's input lists name earlier nodes only.
Forward == \A n \in Nodes : \A i \in DOMAIN inputs[n] : inputs[n][i] < n

PlannerInit == /\ GraphInit
               /\ value \in [Nodes -> IF Forward THEN ValueSpecs ELSE PlainSpecs]
               /\ unplaced = {}
               /\ buffers = <<>>
               /\ live = {}
               /\ buffer_id = [v \in Nodes |-> 0]
               /\ offset = <<>>
               /\ arena_end = [p \in Pools |-> -1]
               /\ executed = 0
               /\ running = FALSE
               /\ bytes_of = [p \in Pools |-> <<>>]

PlannerNext == \/ topological_sort /\ UNCHANGED <<planVars, runVars>>
               \/ plan_begin
               \/ \E v \in Nodes : place(v)
               \/ plan_end
               \/ assign_arena
               \/ allocate
               \/ kernel_start
               \/ kernel_end
               \/ kernel_fails

PlannerSpec == PlannerInit /\ [][PlannerNext]_allVars

-----------------------------------------------------------------------------
(* Properties. *)

PlannerTypeOK ==
    /\ value \in [Nodes -> ValueSpecs]
    /\ unplaced \subseteq Nodes
    /\ \A b \in DOMAIN buffers : /\ buffers[b].bytes \in Nat
                                 /\ buffers[b].pool \in Pools
                                 /\ buffers[b].last_use \in Nodes
    /\ live \subseteq DOMAIN buffers
    /\ buffer_id \in [Nodes -> 0..Len(buffers)]
    /\ \A b \in DOMAIN offset : offset[b] \in Nat
    /\ executed \in 0..N

\* Two values that share a buffer are never needed at the same time: the node
\* that produces the later one comes strictly after the last use of the
\* earlier one; and a value is given a buffer of its own pool that is large
\* enough (MemoryPlanner::plan).
ReuseIsSafe ==
    \A u, v \in Nodes : buffer_id[v] # 0 =>
        /\ buffers[buffer_id[v]].pool = value[v].pool
        /\ value[v].bytes <= buffers[buffer_id[v]].bytes
        /\ u # v /\ buffer_id[u] = buffer_id[v] =>
              last_node(u) < first_node(v) \/ last_node(v) < first_node(u)

\* The buffers of an arena lie side by side.
ArenaDisjoint ==
    \A b, c \in DOMAIN offset : b < c /\ buffers[b].pool = buffers[c].pool =>
        offset[b] + buffers[b].bytes <= offset[c]

\* A plan is of its type, gives values of overlapping lifetimes different
\* buffers, each large enough, and lays the buffers of an arena side by side.
PlanInv == PlannerTypeOK /\ ReuseIsSafe /\ ArenaDisjoint

\* The kernel that produces v has started, and v is an output or some kernel
\* that reads it has not ended.
Needed(v) ==
    /\ position(v) <= executed + (IF running THEN 1 ELSE 0)
    /\ \/ value[v].kind = "Output"
       \/ \E m \in consumers(v) : position(m) > executed

\* The point of it all: from the start of the kernel that produces a value
\* until the end of the last kernel that reads it, and to the end of the run
\* for an output, no other kernel writes into its bytes.
LiveValuesIntact ==
    stage = "allocated" =>
        \A v \in Nodes : Needed(v) => \A c \in Extent(v) : bytes_of[value[v].pool][c] = v
=============================================================================
