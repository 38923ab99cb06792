------------------------------ MODULE MCHelper ------------------------------
(* Model-checking instance of Helper: one caption call and one GitHub call. *)
EXTENDS Helper, TLC

PidSymmetry == Permutations(Pids)

\* A child in the group on the pipes, one that has redirected its output, and
\* a daemon that has left the group.
MCWorkers == {[grouped |-> TRUE, piped |-> TRUE],
              [grouped |-> TRUE, piped |-> FALSE],
              [grouped |-> FALSE, piped |-> FALSE]}
=============================================================================
