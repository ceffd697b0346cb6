----------------------------- MODULE MCExecution -----------------------------
(* Small instances of Execution for TLC.                                     *)
EXTENDS Execution, TLC

Best == [strict |-> TRUE, root |-> FALSE, exposed |-> FALSE, pinned |-> FALSE,
         filter |-> TRUE, scope |-> TRUE, programs |-> Programs]
Lax == [Best EXCEPT !.strict = FALSE]

\* With -strict a box that has everything and a pinned tool, whose script may stay as it
\* is, and every box that lacks one thing; without it the box that has everything, which
\* may lose it.
AnyBox == {[Best EXCEPT !.pinned = TRUE], [Best EXCEPT !.root = TRUE], [Best EXCEPT !.exposed = TRUE],
           [Best EXCEPT !.filter = FALSE], [Best EXCEPT !.scope = FALSE],
           [Best EXCEPT !.programs = {"systemd-run"}], Lax}

\* The box that has everything, and -strict.
StrictBox == {Best}

\* The same without -strict.
LaxBox == {Lax}

OneFile == <<"report">>

Symmetry == Permutations(Job) \union Permutations(Worker)
=============================================================================
