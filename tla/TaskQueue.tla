----------------------------- MODULE TaskQueue -----------------------------
(***************************************************************************)
(* Handlers that wait on a strand or an io_context: a sequence of tasks,   *)
(* records with a field op.  Which tasks of some kinds wait on it.         *)
(***************************************************************************)
EXTENDS Integers, Sequences

\* The positions on s of the tasks of some kinds.
TasksOf(s, kinds) == {i \in 1..Len(s) : s[i].op \in kinds}
None(s, kinds) == TasksOf(s, kinds) = {}
Unique(s, kinds) == \A i, j \in TasksOf(s, kinds) : i = j
=============================================================================
