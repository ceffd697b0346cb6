----------------------------- MODULE MCJobQueue ------------------------------
(* Small instances of JobQueue for TLC.                                      *)
EXTENDS JobQueue, TLC

CONSTANTS a, b, k

\* Two submits of the same call, or two unrelated ones.
SameKey == [i \in Id |-> k]
NoKeys == [i \in Id |-> NoKey]

\* Ids that share a key or have none, and workers, are interchangeable.
Symmetry == Permutations(Id) \union Permutations(Worker)
=============================================================================
