-------------------------- MODULE MCServiceControl --------------------------
(* Two invokers; two settings, of which only the port is part of the URL.   *)
EXTENDS ServiceControl, TLC

CONSTANTS c1, c2

AllDefaults == [k \in Settings |-> "default"]

Symmetry == Permutations(Invokers)
=============================================================================
