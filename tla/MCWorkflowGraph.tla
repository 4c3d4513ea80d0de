-------------------------- MODULE MCWorkflowGraph --------------------------
(* WorkflowGraph for TLC: a chain a -> b -> m that is joined by c at the   *)
(* merge gate m.                                                           *)
EXTENDS WorkflowGraph

CONSTANTS a, b, c, m

Chain == [t \in Tasks |-> CASE t = b -> {a} [] t = m -> {b, c} [] OTHER -> {}]
ApprovedTasks == {c}
Gate == {m}
=============================================================================
