--------------------------- MODULE MCGireveOutbox ---------------------------
(* Small instances of the Gireve outbox for TLC. *)
EXTENDS GireveOutbox, TLC

\* Runs are interchangeable; so are resources of the same module.
Symmetry == Permutations(Runs) \cup Permutations(Resources \ Cdrs)

\* Bound: live pushes of all resources together.
CONSTANT MaxPushes
FewPushes ==
    Cardinality({p \in Resources \X Versions : push[p[1]][p[2]].pc # "idle"}) <= MaxPushes
=============================================================================
