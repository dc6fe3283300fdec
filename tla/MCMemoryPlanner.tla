-------------------------- MODULE MCMemoryPlanner ---------------------------
(* MemoryPlanner for TLC. *)
EXTENDS MemoryPlanner

VSpec(k, p, b, d) == [kind |-> k, pool |-> p, bytes |-> b, dynamic |-> d]

MCIds   == 1..5

\* Value 5 has no producer and stands in a list of its own or behind another;
\* the lists of three are those of an attention node and of one in a cycle.
MCInputLists == {<<>>, <<5>>, <<1, 5>>, <<1, 2, 3>>, <<2, 3, 4>>}
                \cup {<<a>> : a \in 1..4} \cup {l \in (1..4) \X (1..4) : l[1] <= l[2]}

MCPools == {"f32", "i32"}
MCPlain == VSpec("Intermediate", "f32", 2, FALSE)
MCPlainSpecs == {MCPlain}
MCSpecs == {MCPlain, VSpec("Intermediate", "f32", 3, FALSE), VSpec("Intermediate", "i32", 2, FALSE),
            VSpec("Output", "f32", 2, FALSE), VSpec("Intermediate", "f32", 2, TRUE)}
=============================================================================
