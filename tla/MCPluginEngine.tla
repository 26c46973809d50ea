--------------------------- MODULE MCPluginEngine ---------------------------
(* PluginEngine for TLC.                                                   *)
EXTENDS PluginEngine, TLC

Symmetry == Permutations(Records) \cup Permutations(Callers) \cup Permutations(Admins)

\* States that differ only in what a record held before nothing referred to it
\* any more (Fresh) are the same: Install overwrites all of it.
LiveView ==
    <<[r \in Records \ Fresh |-> record[r]], catalog, routed, task, lock,
      opened \ Fresh, serving>>
=============================================================================
