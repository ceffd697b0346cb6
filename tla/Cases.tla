--------------------------------- MODULE Cases ---------------------------------
(***************************************************************************)
(* Functions of the program, case by case: a behaviour has picked a case   *)
(* and computes it in its one step.                                        *)
(***************************************************************************)

VARIABLES in,  \* the case: what it is of, and the inputs
          done

Compute == ~done /\ done' = TRUE /\ UNCHANGED in

\* What is said of a case is said once it is computed.
Case(f) == done /\ in.of = f
=============================================================================
