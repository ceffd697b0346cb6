------------------------------ MODULE SchemaCases ------------------------------
(***************************************************************************)
(* Schemas of contracts: the cases in which the gate is compared with what *)
(* they mean.                                                              *)
(***************************************************************************)
EXTENDS Schema, Cases

GateCase(s) == [of |-> "gate", s |-> s]

GateInit == done = FALSE /\ \E s \in Schemas : AsSchema(s) /\ in = GateCase(s)

GateSpec == GateInit /\ [][Compute]_<<in, done>>

\* What Lint() lets through, the gate takes and refuses as JSON Schema says, with every
\* keyword in its place and strings that are ASCII.
GateMeansContract == Case("gate") => \A v \in Values : GateMeans(in.s, v)
=============================================================================
