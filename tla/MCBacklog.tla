------------------------------ MODULE MCBacklog ------------------------------
(* Small instances of Backlog for TLC.                                       *)
EXTENDS Backlog, TLC

\* The jobs that enter through submit() are interchangeable, and so are the
\* workers; used in the run that checks no liveness property.
Symmetry == Permutations(Fresh) \union Permutations(Worker)
=============================================================================
